---- MODULE Spec2Model ----
(***************************************************************************)
(* Resource orchestration and lifecycle of the Hetzner docker-machine      *)
(* driver: PreCreateCheck, Create (with its deferred rollback), Remove,    *)
(* Start/Stop/Restart/Kill and GetState of one Driver instance, against a  *)
(* remote provider holding SSH keys, placement groups, one server and one  *)
(* asynchronous action.  The driver is single-threaded: one operation runs *)
(* to its return before the host starts the next one.  Every remote call   *)
(* is one step whose outcome (transport error, absent, found / accepted)   *)
(* is chosen by the provider.                                              *)
(***************************************************************************)
EXTENDS Integers, Sequences, FiniteSets, TLC

VARIABLES
    d,        \* the Driver instance (src/unnamed/part_005:18-65)
    remote,   \* the provider's resources: keys, placement groups, server, action
    pc,       \* position of the running operation ("idle" between operations)
    op,       \* the driver method the host is running
    loc,      \* locals of the running operation
    result,   \* the error the operation returns (<<>> is nil)
    calls,    \* history: the remote requests the running operation has issued
    uploaded, \* history: resources this instance created, [kind, id]
    host      \* the host's protocol state: phase and remaining lifecycle calls

vars == <<d, remote, pc, op, loc, result, calls, uploaded, host>>

----------------------------------------------------------------------------
(* Bounds of the model *)

\* the operator passes at most this many --hetzner-additional-key values
MaxAdditionalKeys == 2
\* lifecycle calls (Remove, Start, Stop, Restart, Kill, GetState) the host
\* issues on one instance after pre-creation validation / creation
MaxOps == 2

(* Public keys are identified by their fingerprint.  PrimaryPub is the     *)
(* machine's local public key, OtherPub any other key.                     *)
PrimaryPub == "fpPrimary"
OtherPub == "fpOther"
PubKeys == {PrimaryPub, OtherPub}

\* the remote id of the foreign (not uploaded by this driver) key with fingerprint fp
ForeignKeyID(fp) == IF fp = PrimaryPub THEN 1 ELSE 2
\* the remote id of the placement group that exists before the driver runs
ForeignPGID == Cardinality(PubKeys) + 1
\* the provider hands out fresh ids above every id that exists at the start
FirstNewID == ForeignPGID + 1

autoSpreadPgName == "__auto_spread"
NamedPG == "my-group"

NoServer == [id |-> 0, status |-> "", pg |-> 0, privateNet |-> FALSE]
NoAction == [cmd |-> "", status |-> ""]
NoPG == [id |-> 0, autoSpread |-> FALSE, autoCreated |-> FALSE, servers |-> 0]
NoHandle == [id |-> 0, pg |-> NoPG]
NoKey == [id |-> 0, fp |-> ""]
\* hcloud.ServerCreateOpts before makeCreateServerOptions has filled it
\* srvopts.PublicNet == nil: the request has no public-network section
NoPublicNet == [EnableIPv4 |-> FALSE, EnableIPv6 |-> FALSE, IPv4 |-> "", IPv6 |-> "", set |-> FALSE]
NoOpts ==
    [ PlacementGroup |-> 0, Networks |-> <<>>, Firewalls |-> <<>>, Volumes |-> <<>>,
      Location |-> "", SSHKeys |-> <<>>, PublicNet |-> NoPublicNet ]
NoLoc == [i |-> 0, srv |-> 0, pgrp |-> 0, state |-> "", srvopts |-> NoOpts]

\* errors are the chain of messages from the outermost wrap inwards; nil is <<>>
nil == <<>>
Err(msg) == <<msg>>
Wrap(err, msg) == <<msg>> \o err

\* hcloud.ServerStatus values; "stopping" stands for every status GetState
\* has no case for
ServerStatuses == {"initializing", "running", "stopping", "off"}

----------------------------------------------------------------------------
(* Configurations the operator can bind (setConfigFromFlagsImpl) and the   *)
(* provider states the driver can meet.                                    *)

RECURSIVE SeqsUpTo(_, _)
\* all sequences over S of length at most n
SeqsUpTo(S, n) ==
    IF n = 0 THEN {<<>>}
    ELSE LET shorter == SeqsUpTo(S, n - 1)
         IN  shorter \cup {Append(q, x) : q \in shorter, x \in S}

Range(q) == {q[i] : i \in 1..Len(q)}

\* --hetzner-existing-key-id: 0 is "not given"
KeyIDChoices == {0} \cup {ForeignKeyID(fp) : fp \in PubKeys}
\* --hetzner-existing-key-path: "" is "not given" (a key pair is generated)
OriginalKeyChoices == {"", "id_rsa"}
LocationChoices == {"", "fsn1"}
PlacementGroupChoices == {"", autoSpreadPgName, NamedPG}
NetworksChoices == {<<>>, <<"net">>}
PrimaryIPv4Choices == {"", "pip4"}
PrimaryIPv6Choices == {""}
WaitForRunningTimeoutChoices == {0, 1}
FirewallsChoices == {<<>>, <<"fw">>}
VolumesChoices == {<<>>, <<"vol">>}
\* --hetzner-user-data-file: "" is "not given"
UserDataFileChoices == {"", "cloud-init.yml"}

\* the placement group a lookup finds before the driver created any:
\* auto-created by an earlier run or made by the operator, with or without
\* other member servers
ForeignPGs ==
    {[id |-> ForeignPGID, autoSpread |-> FALSE, autoCreated |-> a, servers |-> n] :
        a \in BOOLEAN, n \in {0, 1}}

\* NewDriver followed by setConfigFromFlagsImpl (IsExistingKey = KeyID != 0)
NewDriver(keyID, originalKey, additionalKeys, placementGroup, location, usePrivate, networks, disable4, disable6, pip4, pip6, timeout, firewalls, volumes, userDataFile) ==
    [ KeyID |-> keyID,
      IsExistingKey |-> keyID # 0,
      originalKey |-> originalKey,
      cachedKey |-> NoKey,
      AdditionalKeys |-> additionalKeys,
      AdditionalKeyIDs |-> <<>>,
      cachedAdditionalKeys |-> <<>>,
      dangling |-> <<>>,
      ServerID |-> 0,
      cachedServer |-> NoHandle,
      placementGroup |-> placementGroup,
      cachedPGrp |-> 0,
      Location |-> location,
      cachedLocation |-> FALSE,
      Type |-> "cx11",
      cachedType |-> FALSE,
      Image |-> "ubuntu-20.04",
      ImageID |-> 0,
      ImageArch |-> "",
      cachedImage |-> FALSE,
      UsePrivateNetwork |-> usePrivate,
      Networks |-> networks,
      DisablePublic4 |-> disable4,
      DisablePublic6 |-> disable6,
      PrimaryIPv4 |-> pip4,
      cachedPrimaryIPv4 |-> FALSE,
      PrimaryIPv6 |-> pip6,
      cachedPrimaryIPv6 |-> FALSE,
      WaitForRunningTimeout |-> timeout,
      Firewalls |-> firewalls,
      Volumes |-> volumes,
      userData |-> "",
      userDataFile |-> userDataFile,
      IPAddress |-> "" ]

\* A generated key pair is fresh: no remote key and no additional key carries
\* its fingerprint.  Only a key pair copied from --hetzner-existing-key-path
\* can already be known remotely.  Remote keys with a fingerprint the
\* configuration does not mention are never looked at and are left out.
KeyConfigOK(originalKey, additionalKeys, preKeys) ==
    /\ originalKey = "" => PrimaryPub \notin (preKeys \cup Range(additionalKeys))
    /\ preKeys \subseteq {PrimaryPub} \cup Range(additionalKeys)

----------------------------------------------------------------------------
(* Configuration binding (src/unnamed/part_005:328-401 and                  *)
(* src/driver/flag_processing.go).  The options are a function from flag    *)
(* names to values; binding returns [err, d], d being the driver as the     *)
(* failing step left it.                                                    *)

defaultImage == "ubuntu-20.04"
defaultType == "cx11"

flagAPIToken == "hetzner-api-token"
flagImage == "hetzner-image"
flagImageID == "hetzner-image-id"
flagImageArch == "hetzner-image-arch"
flagUserData == "hetzner-user-data"
flagUserDataFile == "hetzner-user-data-file"
flagUsePrivateNetwork == "hetzner-use-private-network"
flagDisablePublic4 == "hetzner-disable-public-ipv4"
flagDisablePublic6 == "hetzner-disable-public-ipv6"
flagPrimary4 == "hetzner-primary-ipv4"
flagPrimary6 == "hetzner-primary-ipv6"
flagDisablePublic == "hetzner-disable-public"
flagServerLabel == "hetzner-server-label"
flagKeyLabel == "hetzner-key-label"
flagPlacementGroup == "hetzner-placement-group"
flagAutoSpread == "hetzner-auto-spread"
legacyFlagUserDataFromFile == "hetzner-user-data-from-file"
legacyFlagDisablePublic4 == "hetzner-disable-public-4"
legacyFlagDisablePublic6 == "hetzner-disable-public-6"

\* d.flagFailure("--%v and --%v are mutually exclusive", a, b)
MutuallyExclusive(a, b) == <<"mutually exclusive", a, b>>

legacyDefaultImages == {defaultImage, "ubuntu-18.04", "ubuntu-16.04", "debian-9"}

\* Variant of isDefaultImageName that knows no legacy default
isDefaultImageNameNever(imageName) == FALSE

isDefaultImageName(imageName) == imageName \in legacyDefaultImages

\* hcloud.ArchitectureARM and hcloud.ArchitectureX86
Architectures == {"arm", "x86"}

setImageArch(dd, arch) ==
    IF arch = "" \/ arch \in Architectures
    THEN [err |-> nil, d |-> [dd EXCEPT !.ImageArch = arch]]
    ELSE [err |-> <<"unknown architecture", arch>>, d |-> dd]

verifyImageFlags(dd) ==
    IF dd.ImageID # 0 /\ dd.Image # "" /\ ~isDefaultImageName(dd.Image)
    THEN [err |-> MutuallyExclusive(flagImage, flagImageID), d |-> dd]
    ELSE IF dd.ImageID # 0 /\ dd.ImageArch # ""
    THEN [err |-> MutuallyExclusive(flagImageArch, flagImageID), d |-> dd]
    ELSE IF dd.ImageID = 0 /\ dd.Image = ""
    THEN [err |-> nil, d |-> [dd EXCEPT !.Image = defaultImage]]
    ELSE [err |-> nil, d |-> dd]

\* src/driver/flag_processing.go:53-67
verifyNetworkFlags(dd) ==
    IF dd.DisablePublic4 /\ dd.DisablePublic6 /\ ~dd.UsePrivateNetwork
    THEN <<"must be used if public networking is disabled",
           flagUsePrivateNetwork, flagDisablePublic>>
    ELSE IF dd.DisablePublic4 /\ dd.PrimaryIPv4 # ""
    THEN MutuallyExclusive(flagPrimary4, flagDisablePublic4)
    ELSE IF dd.DisablePublic6 /\ dd.PrimaryIPv6 # ""
    THEN MutuallyExclusive(flagPrimary6, flagDisablePublic6)
    ELSE nil

\* Variant of deprecatedBooleanFlag that reads the new flag only
deprecatedBooleanFlagIgnored(dd, opts, flag, deprecatedFlag) ==
    [val |-> opts[flag], d |-> dd]

\* the value of a boolean flag that has a deprecated spelling
deprecatedBooleanFlag(dd, opts, flag, deprecatedFlag) ==
    IF opts[deprecatedFlag]
    THEN [val |-> TRUE, d |-> [dd EXCEPT !.usesDfr = TRUE]]
    ELSE [val |-> opts[flag], d |-> dd]

setUserDataFlags(dd, opts) ==
    LET userData == opts[flagUserData]
        userDataFile == opts[flagUserDataFile]
    IN  IF opts[legacyFlagUserDataFromFile]
        THEN IF userDataFile # ""
             THEN [err |-> MutuallyExclusive(flagUserDataFile, legacyFlagUserDataFromFile),
                   d |-> dd]
             ELSE [err |-> nil,
                   d |-> [dd EXCEPT !.usesDfr = TRUE, !.userDataFile = userData]]
        ELSE LET set == [dd EXCEPT !.userData = userData, !.userDataFile = userDataFile]
             IN  IF set.userData # "" /\ set.userDataFile # ""
                 THEN [err |-> MutuallyExclusive(flagUserData, flagUserDataFile), d |-> set]
                 ELSE [err |-> nil, d |-> set]

\* setLabelsFromFlags: a label is given as what strings.SplitN(label, "=", 2)
\* makes of it, <<key, value>> or, without a "=", <<label>>
RECURSIVE LabelsOf(_)
LabelsOf(labels) ==
    IF labels = <<>> THEN [err |-> nil, labels |-> {}]
    ELSE IF Len(Head(labels)) # 2
    THEN [err |-> <<"label is not in key=value format", Head(labels)[1]>>, labels |-> {}]
    ELSE LET rest == LabelsOf(Tail(labels))
         IN  IF rest.err # nil THEN rest
             ELSE [err |-> nil, labels |-> rest.labels \cup {Head(labels)}]

setLabelsFromFlags(dd, opts) ==
    LET server == LabelsOf(opts[flagServerLabel])
        key == LabelsOf(opts[flagKeyLabel])
    IN  IF server.err # nil THEN [err |-> server.err, d |-> dd]
        ELSE IF key.err # nil
        THEN [err |-> key.err, d |-> [dd EXCEPT !.ServerLabels = server.labels]]
        ELSE [err |-> nil,
              d |-> [dd EXCEPT !.ServerLabels = server.labels, !.keyLabels = key.labels]]

\* the driver NewDriver returns, with the fields binding sets from these flags
UnboundDriver ==
    [ AccessToken |-> "", Image |-> "", ImageID |-> 0, ImageArch |-> "",
      Type |-> defaultType, cachedType |-> FALSE, cachedImage |-> FALSE,
      cachedPrimaryIPv4 |-> FALSE, cachedPrimaryIPv6 |-> FALSE,
      userData |-> "", userDataFile |-> "",
      UsePrivateNetwork |-> FALSE, DisablePublic4 |-> FALSE, DisablePublic6 |-> FALSE,
      PrimaryIPv4 |-> "", PrimaryIPv6 |-> "",
      ServerLabels |-> {}, keyLabels |-> {},
      placementGroup |-> "", usesDfr |-> FALSE ]

\* setConfigFromFlagsImpl, part 2: from the placement group to the end
bindPlacementAndVerify(dd, opts) ==
    LET d1 == [dd EXCEPT !.placementGroup = opts[flagPlacementGroup]]
    IN  IF opts[flagAutoSpread] /\ d1.placementGroup # ""
        THEN [err |-> MutuallyExclusive(flagAutoSpread, flagPlacementGroup), d |-> d1]
        ELSE LET d2 == IF opts[flagAutoSpread]
                       THEN [d1 EXCEPT !.placementGroup = autoSpreadPgName] ELSE d1
                 labelled == setLabelsFromFlags(d2, opts)
                 image == verifyImageFlags(labelled.d)
             IN  IF labelled.err # nil THEN labelled
                 ELSE IF labelled.d.AccessToken = ""
                 THEN [err |-> <<"hetzner requires the flag to be set", flagAPIToken>>,
                       d |-> labelled.d]
                 ELSE IF image.err # nil THEN image
                 ELSE [err |-> verifyNetworkFlags(image.d), d |-> image.d]

\* setConfigFromFlagsImpl (src/unnamed/part_005:328-401)
setConfigFromFlagsImpl(dd, opts) ==
    LET d1 == [dd EXCEPT !.AccessToken = opts[flagAPIToken],
                         !.Image = opts[flagImage],
                         !.ImageID = opts[flagImageID]]
        arch == setImageArch(d1, opts[flagImageArch])
        userData == setUserDataFlags(arch.d, opts)
        disablePublic == opts[flagDisablePublic]
        d2 == [userData.d EXCEPT
                 !.UsePrivateNetwork = opts[flagUsePrivateNetwork] \/ disablePublic]
        four == deprecatedBooleanFlag(d2, opts, flagDisablePublic4, legacyFlagDisablePublic4)
        d3 == [four.d EXCEPT !.DisablePublic4 = four.val \/ disablePublic]
        six == deprecatedBooleanFlag(d3, opts, flagDisablePublic6, legacyFlagDisablePublic6)
        d4 == [six.d EXCEPT !.DisablePublic6 = six.val \/ disablePublic,
                            !.PrimaryIPv4 = opts[flagPrimary4],
                            !.PrimaryIPv6 = opts[flagPrimary6]]
    IN  IF arch.err # nil THEN arch
        ELSE IF userData.err # nil THEN userData
        ELSE bindPlacementAndVerify(d4, opts)

\* a user-data file: absent, or present with its bytes
NoFile == [exists |-> FALSE, bytes |-> <<>>]
Files == {NoFile, [exists |-> TRUE, bytes |-> <<"#", "c", "\n", " ">>]}

\* Variant of readUserData that strips trailing white space
RECURSIVE TrimRight(_)
TrimRight(bytes) ==
    IF bytes # <<>> /\ bytes[Len(bytes)] \in {" ", "\n"}
    THEN TrimRight(SubSeq(bytes, 1, Len(bytes) - 1))
    ELSE bytes

readUserDataTrimmed(dd, file) ==
    IF dd.userDataFile = "" THEN [err |-> nil, data |-> dd.userData]
    ELSE IF ~file.exists
    THEN [err |-> Err("open: no such file or directory"), data |-> ""]
    ELSE [err |-> nil, data |-> TrimRight(file.bytes)]

\* getUserData (src/driver/placement_groups.go:189-200), file being the file
\* at d.userDataFile
readUserData(dd, file) ==
    IF dd.userDataFile = "" THEN [err |-> nil, data |-> dd.userData]
    ELSE IF ~file.exists
    THEN [err |-> Err("open: no such file or directory"), data |-> ""]
    ELSE [err |-> nil, data |-> file.bytes]

\* The configurations examined: every combination of the key and placement
\* group flags with the default network flags, and every combination of the
\* location, network and timeout flags that setConfigFromFlagsImpl accepts,
\* and of the firewall, volume and user-data-file flags, with a generated
\* key and no additional keys.
Drivers ==
    {NewDriver(k, ok, ak, pg, "fsn1", FALSE, <<>>, FALSE, FALSE, "", "", 0, <<>>, <<>>, "") :
        k \in KeyIDChoices, ok \in OriginalKeyChoices,
        ak \in SeqsUpTo(PubKeys, MaxAdditionalKeys),
        pg \in PlacementGroupChoices}
    \cup
    {drv \in {NewDriver(0, "", <<>>, "", l, up, nw, d4, d6, p4, p6, t, <<>>, <<>>, "") :
                l \in LocationChoices,
                up \in BOOLEAN, nw \in NetworksChoices, d4 \in BOOLEAN, d6 \in BOOLEAN,
                p4 \in PrimaryIPv4Choices, p6 \in PrimaryIPv6Choices,
                t \in WaitForRunningTimeoutChoices} :
        verifyNetworkFlags(drv) = nil}
    \cup
    {NewDriver(0, "", <<>>, "", "fsn1", FALSE, <<>>, FALSE, FALSE, "", "", 0, fw, vol, udf) :
        fw \in FirewallsChoices, vol \in VolumesChoices, udf \in UserDataFileChoices}

Remote(preKeys, prePGs) ==
    [ keys |-> {[id |-> ForeignKeyID(fp), fp |-> fp] : fp \in preKeys},
      pgs |-> prePGs,
      server |-> NoServer,
      action |-> NoAction,
      nextID |-> FirstNewID ]

Init ==
    /\ \E drv \in Drivers, preKeys \in SUBSET PubKeys :
         /\ KeyConfigOK(drv.originalKey, drv.AdditionalKeys, preKeys)
         /\ d = drv
         /\ \E prePGs \in {{}} \cup {{g} : g \in ForeignPGs} :
              /\ drv.placementGroup = "" => prePGs = {}
              /\ remote = Remote(preKeys,
                    {[g EXCEPT !.autoSpread = (drv.placementGroup = autoSpreadPgName)] :
                        g \in prePGs})
    /\ pc = "idle"
    /\ op = ""
    /\ loc = NoLoc
    /\ result = nil
    /\ calls = <<>>
    /\ uploaded = {}
    /\ host = [phase |-> "new", ops |-> 0]

----------------------------------------------------------------------------
(* Lookup & cache layer (src/driver/hetzner_query.go, placement_groups.go). *)
(* A getter is the set of its possible outcomes [err, d]: the error it      *)
(* returns and the driver with the cache field it may have filled.  The     *)
(* provider decides between a transport error, an absent and a found entity.*)

\* a request sent to the provider: the client method, its arguments (as
\* strings) and whether the transport succeeded
Req(c, arg, ok) == [c |-> c, arg |-> arg, ok |-> ok]

\* an outcome that sent the requests reqs
Asked(err, dd, reqs) == [err |-> err, d |-> dd, reqs |-> reqs]

\* an outcome that sent no request
Outcome(err, dd) == Asked(err, dd, <<>>)

\* hcloud.ServerType.Architecture of the configured server type
Architecture(type) == IF type = "cax11" THEN "arm" ELSE "x86"

\* Variant of getType that asks the provider whether or not the type is cached
getTypeUncached(dd) ==
    { Asked(Err("could not get type by name"), dd,
            <<Req("ServerType.GetByName", <<dd.Type>>, FALSE)>>),
      Asked(<<"unknown server type", dd.Type>>, dd,
            <<Req("ServerType.GetByName", <<dd.Type>>, TRUE)>>),
      Asked(nil, [dd EXCEPT !.cachedType = TRUE],
            <<Req("ServerType.GetByName", <<dd.Type>>, TRUE)>>) }

getType(dd) ==
    IF dd.cachedType THEN {Outcome(nil, dd)}
    ELSE { Asked(Err("could not get type by name"), dd,
                 <<Req("ServerType.GetByName", <<dd.Type>>, FALSE)>>),
           Asked(<<"unknown server type", dd.Type>>, dd,
                 <<Req("ServerType.GetByName", <<dd.Type>>, TRUE)>>),
           Asked(nil, [dd EXCEPT !.cachedType = TRUE],
                 <<Req("ServerType.GetByName", <<dd.Type>>, TRUE)>>) }

\* Variant of the architecture selection that always asks the server type
getImageArchitectureForLookupFromType(dd) ==
    {[err |-> t.err, d |-> t.d, reqs |-> t.reqs,
      arch |-> IF t.err = nil THEN Architecture(dd.Type) ELSE ""] : t \in getType(dd)}

\* the architecture the image is looked up with: the configured one, else
\* that of the server type
getImageArchitectureForLookup(dd) ==
    IF dd.ImageArch # ""
    THEN {[err |-> nil, d |-> dd, reqs |-> <<>>, arch |-> dd.ImageArch]}
    ELSE {[err |-> t.err, d |-> t.d, reqs |-> t.reqs,
           arch |-> IF t.err = nil THEN Architecture(dd.Type) ELSE ""] : t \in getType(dd)}

getImage(dd) ==
    IF dd.cachedImage THEN {Outcome(nil, dd)}
    ELSE IF dd.ImageID # 0
    THEN { Asked(Err("could not get image by id"), dd,
                 <<Req("Image.GetByID", <<ToString(dd.ImageID)>>, FALSE)>>),
           Asked(<<"image id not found", ToString(dd.ImageID)>>, dd,
                 <<Req("Image.GetByID", <<ToString(dd.ImageID)>>, TRUE)>>),
           Asked(nil, [dd EXCEPT !.cachedImage = TRUE],
                 <<Req("Image.GetByID", <<ToString(dd.ImageID)>>, TRUE)>>) }
    ELSE UNION {
        IF a.err # nil
        THEN {Asked(Wrap(a.err, "could not determine image architecture"), a.d, a.reqs)}
        ELSE { Asked(Err("could not get image by name"), a.d,
                     Append(a.reqs, Req("Image.GetByNameAndArchitecture", <<dd.Image, a.arch>>, FALSE))),
               Asked(<<"image not found", dd.Image, a.arch>>, a.d,
                     Append(a.reqs, Req("Image.GetByNameAndArchitecture", <<dd.Image, a.arch>>, TRUE))),
               Asked(nil, [a.d EXCEPT !.cachedImage = TRUE],
                     Append(a.reqs, Req("Image.GetByNameAndArchitecture", <<dd.Image, a.arch>>, TRUE))) }
        : a \in getImageArchitectureForLookup(dd) }

\* Variant of getLocation that caches the absent answer as well
getLocationAbsentCached(dd) ==
    IF dd.cachedLocation THEN {Outcome(nil, dd)}
    ELSE IF dd.Location = "" THEN {Outcome(<<"unknown location", dd.Location>>, dd)}
    ELSE { Asked(Err("could not get location by name"), dd,
                 <<Req("Location.GetByName", <<dd.Location>>, FALSE)>>),
           Asked(<<"unknown location", dd.Location>>, [dd EXCEPT !.cachedLocation = TRUE],
                 <<Req("Location.GetByName", <<dd.Location>>, TRUE)>>),
           Asked(nil, [dd EXCEPT !.cachedLocation = TRUE],
                 <<Req("Location.GetByName", <<dd.Location>>, TRUE)>>) }

\* Location.GetByName("") answers absent without a request
getLocation(dd) ==
    IF dd.cachedLocation THEN {Outcome(nil, dd)}
    ELSE IF dd.Location = "" THEN {Outcome(<<"unknown location", dd.Location>>, dd)}
    ELSE { Asked(Err("could not get location by name"), dd,
                 <<Req("Location.GetByName", <<dd.Location>>, FALSE)>>),
           Asked(<<"unknown location", dd.Location>>, dd,
                 <<Req("Location.GetByName", <<dd.Location>>, TRUE)>>),
           Asked(nil, [dd EXCEPT !.cachedLocation = TRUE],
                 <<Req("Location.GetByName", <<dd.Location>>, TRUE)>>) }

\* the outcomes of resolvePrimaryIP(raw): an error, or nil with the address
\* found, and the request it sent (the references configured here are names,
\* which client.Get resolves)
resolvePrimaryIP(raw) ==
    { [err |-> Err("could not get primary IP"), reqs |-> <<Req("PrimaryIP.Get", <<raw>>, FALSE)>>],
      [err |-> <<"primary IP not found", raw>>, reqs |-> <<Req("PrimaryIP.Get", <<raw>>, TRUE)>>],
      [err |-> nil, reqs |-> <<Req("PrimaryIP.Get", <<raw>>, TRUE)>>] }

getPrimaryIPv4(dd) ==
    IF dd.PrimaryIPv4 = "" \/ dd.cachedPrimaryIPv4 THEN {Outcome(nil, dd)}
    ELSE {Asked(r.err, [dd EXCEPT !.cachedPrimaryIPv4 = (r.err = nil)], r.reqs) : r \in resolvePrimaryIP(dd.PrimaryIPv4)}

getPrimaryIPv6(dd) ==
    IF dd.PrimaryIPv6 = "" \/ dd.cachedPrimaryIPv6 THEN {Outcome(nil, dd)}
    ELSE {Asked(r.err, [dd EXCEPT !.cachedPrimaryIPv6 = (r.err = nil)], r.reqs) : r \in resolvePrimaryIP(dd.PrimaryIPv6)}

\* SSHKey.GetByID(id): nil when the provider has no such key
RemoteKeyByID(rr, id) ==
    IF \E k \in rr.keys : k.id = id
    THEN CHOOSE k \in rr.keys : k.id = id
    ELSE NoKey

getKey(dd, rr) ==
    IF dd.cachedKey # NoKey THEN {Outcome(nil, dd)}
    ELSE { Asked(Err("could not get sshkey by ID"), dd,
                 <<Req("SSHKey.GetByID", <<ToString(dd.KeyID)>>, FALSE)>>),
           IF RemoteKeyByID(rr, dd.KeyID) = NoKey
           THEN Asked(<<"key not found", ToString(dd.KeyID)>>, dd,
                      <<Req("SSHKey.GetByID", <<ToString(dd.KeyID)>>, TRUE)>>)
           ELSE Asked(nil, [dd EXCEPT !.cachedKey = RemoteKeyByID(rr, dd.KeyID)],
                      <<Req("SSHKey.GetByID", <<ToString(dd.KeyID)>>, TRUE)>>) }

\* getLocationNullable is called by makeCreateServerOptions: no location
\* configured is no error and no constraint, otherwise as getLocation
getLocationNullable(dd) ==
    IF dd.Location = "" THEN {Outcome(nil, dd)} ELSE getLocation(dd)

\* createNetworks: every configured network is looked up, nothing is cached
createNetworks(dd) ==
    IF dd.Networks = <<>> THEN {Outcome(nil, dd)}
    ELSE { Outcome(Err("could not get network by ID or name"), dd),
           Outcome(Err("network not found"), dd),
           Outcome(nil, dd) }

\* createFirewalls: likewise for every configured firewall
createFirewalls(dd) ==
    IF dd.Firewalls = <<>> THEN {Outcome(nil, dd)}
    ELSE { Outcome(Err("could not get firewall by ID or name"), dd),
           Outcome(Err("firewall not found"), dd),
           Outcome(nil, dd) }

\* createVolumes: likewise for every configured volume
createVolumes(dd) ==
    IF dd.Volumes = <<>> THEN {Outcome(nil, dd)}
    ELSE { Outcome(Err("could not get volume by ID or name"), dd),
           Outcome(Err("volume not found"), dd),
           Outcome(nil, dd) }

\* getUserData: a configured user-data file is read, and the read can fail
getUserData(dd) ==
    {Outcome(readUserData(dd, file).err, dd) : file \in Files}

\* the first error of the getters gs applied in order, each to the driver
\* the previous one left; gs[i] is <<getter, context the caller wraps its
\* error in>>, "" for none
RECURSIVE Resolve(_, _, _)
GetterOutcomes(g, dd, rr) ==
    CASE g = "type" -> getType(dd)
      [] g = "image" -> getImage(dd)
      [] g = "location" -> getLocation(dd)
      [] g = "pip4" -> getPrimaryIPv4(dd)
      [] g = "pip6" -> getPrimaryIPv6(dd)
      [] g = "key" -> getKey(dd, rr)
      [] g = "locationNullable" -> getLocationNullable(dd)
      [] g = "networks" -> createNetworks(dd)
      [] g = "firewalls" -> createFirewalls(dd)
      [] g = "volumes" -> createVolumes(dd)
      [] g = "userData" -> getUserData(dd)

Resolve(gs, dd, rr) ==
    IF gs = <<>> THEN {Outcome(nil, dd)}
    ELSE UNION {
        IF o.err # nil
        THEN {Asked(IF Head(gs)[2] = "" THEN o.err ELSE Wrap(o.err, Head(gs)[2]), o.d, o.reqs)}
        ELSE {Asked(n.err, n.d, o.reqs \o n.reqs) : n \in Resolve(Tail(gs), o.d, rr)}
        : o \in GetterOutcomes(Head(gs)[1], dd, rr) }

----------------------------------------------------------------------------
(* Call and return of a driver method *)

Log(c, id, ok) == Append(calls, [c |-> c, id |-> id, ok |-> ok])

\* the log after the lookups reqs of a getter were sent
Sent(reqs) == calls \o [j \in 1..Len(reqs) |-> [c |-> reqs[j].c, id |-> 0, ok |-> reqs[j].ok]]

\* the method returns err to the host
Return(err) ==
    /\ pc' = "ret"
    /\ result' = err

Goto(label) ==
    /\ pc' = label
    /\ result' = result

\* Create leaves through its deferred destroyDangling (part_005:458)
Deferred(dd, err) ==
    /\ result' = err
    /\ IF dd.dangling = <<>>
       THEN pc' = "ret" /\ loc' = loc
       ELSE pc' = "destroyDangling" /\ loc' = [loc EXCEPT !.i = 1]

----------------------------------------------------------------------------
(* PreCreateCheck (src/unnamed/part_005:413-449) *)

\* the local public key file of the machine can be read or not
LocalIO == {TRUE, FALSE}

\* ssh.FingerprintLegacyMD5 and ssh.FingerprintSHA256 of a public key; the
\* Fingerprint field of a remote key is one or the other rendering of its
\* public key
FingerprintFormats == {"MD5", "SHA256"}
FingerprintLegacyMD5(pub) == <<"MD5", pub>>
FingerprintSHA256(pub) == <<"SHA256", pub>>

\* errors.Errorf("remote key %d does not match local key %s", keyID, path)
KeyMismatch(keyID, path) ==
    <<"remote key does not match local key", ToString(keyID), path>>

\* Variant of setupExistingKey that compares the MD5 fingerprint only
setupExistingKeyMD5Only ==
    /\ pc = "setupExistingKey"
    /\ UNCHANGED <<remote, op, loc, uploaded, host>>
    /\ IF ~d.IsExistingKey
       THEN UNCHANGED <<d, calls>> /\ Goto("PreCreateCheck")
       ELSE IF d.originalKey = ""
       THEN /\ UNCHANGED <<d, calls>>
            /\ Return(Err("specifying an existing key ID requires the existing key path to be set as well"))
       ELSE \E o \in getKey(d, remote), readable \in LocalIO, parsable \in LocalIO,
               format \in FingerprintFormats :
              LET Fingerprint == <<format, o.d.cachedKey.fp>>
              IN  /\ d' = o.d
                  /\ calls' = Sent(o.reqs)
                  /\ IF o.err # nil THEN Return(Wrap(o.err, "could not get key"))
                     ELSE IF ~readable THEN Return(Err("could not read public key"))
                     ELSE IF ~parsable THEN Return(Err("could not parse authorized key"))
                     ELSE IF Fingerprint # FingerprintLegacyMD5(PrimaryPub)
                     THEN Return(KeyMismatch(d.KeyID, d.originalKey))
                     ELSE Goto("PreCreateCheck")

\* src/driver/ssh_keys.go:15-46; the file originalKey + ".pub" holds the
\* public key PrimaryPub
setupExistingKey ==
    /\ pc = "setupExistingKey"
    /\ UNCHANGED <<remote, op, loc, uploaded, host>>
    /\ IF ~d.IsExistingKey
       THEN UNCHANGED <<d, calls>> /\ Goto("PreCreateCheck")
       ELSE IF d.originalKey = ""
       THEN /\ UNCHANGED <<d, calls>>
            /\ Return(Err("specifying an existing key ID requires the existing key path to be set as well"))
       ELSE \E o \in getKey(d, remote), readable \in LocalIO, parsable \in LocalIO,
               format \in FingerprintFormats :
              LET Fingerprint == <<format, o.d.cachedKey.fp>>
              IN  /\ d' = o.d
                  /\ calls' = Sent(o.reqs)
                  /\ IF o.err # nil THEN Return(Wrap(o.err, "could not get key"))
                     ELSE IF ~readable THEN Return(Err("could not read public key"))
                     ELSE IF ~parsable THEN Return(Err("could not parse authorized key"))
                     ELSE IF /\ Fingerprint # FingerprintLegacyMD5(PrimaryPub)
                             /\ Fingerprint # FingerprintSHA256(PrimaryPub)
                     THEN Return(KeyMismatch(d.KeyID, d.originalKey))
                     ELSE Goto("PreCreateCheck")

PreCreateCheck ==
    /\ pc = "PreCreateCheck"
    /\ UNCHANGED <<remote, op, loc, uploaded, host>>
    /\ \E o \in Resolve(<< <<"type", "could not get type">>,
                           <<"image", "could not get image">>,
                           <<"location", "could not get location">> >>, d, remote) :
         /\ d' = o.d
         /\ calls' = Sent(o.reqs)
         /\ IF o.err # nil THEN Return(o.err) ELSE Goto("getPlacementGroup")

\* getPlacementGroup has returned (grp, err) to the running method
PlacementGroupResolved(dd, grp, err) ==
    IF op = "PreCreateCheck"
    THEN /\ loc' = loc
         /\ IF err # nil THEN Return(Wrap(err, "could not create placement group"))
            ELSE Goto("PreCreateCheckPrimaryIPs")
    ELSE IF err # nil THEN Deferred(dd, err)
         ELSE loc' = [loc EXCEPT !.pgrp = grp] /\ Goto("makeCreateServerOptions")

\* the groups the lookup of getPlacementGroup matches: by the auto-spread
\* label (getAutoPlacementGroup) or by the configured name
MatchingPGs(dd, rr) ==
    {g \in rr.pgs : g.autoSpread = (dd.placementGroup = autoSpreadPgName)}

\* the request the lookup of getPlacementGroup sends
PGLookupCall(dd) ==
    IF dd.placementGroup = autoSpreadPgName
    THEN "PlacementGroup.AllWithOpts" ELSE "PlacementGroup.Get"

\* Variant of getPlacementGroup that creates a group whatever the lookup
\* found
getPlacementGroupAlwaysCreates ==
    /\ pc = "getPlacementGroup"
    /\ UNCHANGED <<remote, op, uploaded, host>>
    /\ IF d.placementGroup = ""
       THEN d' = d /\ calls' = calls /\ PlacementGroupResolved(d, 0, nil)
       ELSE IF d.cachedPGrp # 0
       THEN d' = d /\ calls' = calls /\ PlacementGroupResolved(d, d.cachedPGrp, nil)
       ELSE \E found \in {"error", "answer"} :
              IF found = "error"
              THEN /\ d' = d
                   /\ calls' = Log(PGLookupCall(d), 0, FALSE)
                   /\ PlacementGroupResolved(d, 0,
                        IF d.placementGroup = autoSpreadPgName
                        THEN Err("placement group list failed")
                        ELSE Err("could not get placement group"))
              ELSE IF MatchingPGs(d, remote) = {}
              THEN /\ d' = d /\ loc' = loc
                   /\ calls' = Log(PGLookupCall(d), 0, TRUE)
                   /\ Goto("makePlacementGroup")
              ELSE \E g \in MatchingPGs(d, remote) :
                     /\ d' = d /\ loc' = loc
                     /\ calls' = Log(PGLookupCall(d), g.id, TRUE)
                     /\ Goto("makePlacementGroup")

\* src/driver/placement_groups.go:16-28 and 60-81: the lookup
getPlacementGroup ==
    /\ pc = "getPlacementGroup"
    /\ UNCHANGED <<remote, op, uploaded, host>>
    /\ IF d.placementGroup = ""
       THEN d' = d /\ calls' = calls /\ PlacementGroupResolved(d, 0, nil)
       ELSE IF d.cachedPGrp # 0
       THEN d' = d /\ calls' = calls /\ PlacementGroupResolved(d, d.cachedPGrp, nil)
       ELSE \E found \in {"error", "answer"} :
              IF found = "error"
              THEN /\ d' = d
                   /\ calls' = Log(PGLookupCall(d), 0, FALSE)
                   /\ PlacementGroupResolved(d, 0,
                        IF d.placementGroup = autoSpreadPgName
                        THEN Err("placement group list failed")
                        ELSE Err("could not get placement group"))
              ELSE IF MatchingPGs(d, remote) = {}
              THEN /\ d' = d /\ loc' = loc
                   /\ calls' = Log(PGLookupCall(d), 0, TRUE)
                   /\ Goto("makePlacementGroup")
              ELSE \E g \in MatchingPGs(d, remote) :
                     /\ d' = IF d.placementGroup = autoSpreadPgName
                             THEN [d EXCEPT !.cachedPGrp = g.id] ELSE d
                     /\ calls' = Log(PGLookupCall(d), g.id, TRUE)
                     /\ PlacementGroupResolved(d', g.id, nil)

\* Variant of makePlacementGroup that forgets to register the deletion of
\* the group it created
makePlacementGroupUnregistered ==
    /\ pc = "makePlacementGroup"
    /\ UNCHANGED <<op, host>>
    /\ \E created \in BOOLEAN :
         IF ~created
         THEN /\ UNCHANGED <<d, remote, uploaded>>
              /\ calls' = Log("PlacementGroup.Create", 0, FALSE)
              /\ PlacementGroupResolved(d, 0, Err("could not create placement group"))
         ELSE LET id == remote.nextID
                  grp == [id |-> id,
                          autoSpread |-> (d.placementGroup = autoSpreadPgName),
                          autoCreated |-> TRUE,
                          servers |-> 0]
              IN  /\ remote' = [remote EXCEPT !.pgs = @ \cup {grp}, !.nextID = @ + 1]
                  /\ uploaded' = uploaded \cup {[kind |-> "pg", id |-> id]}
                  /\ calls' = Log("PlacementGroup.Create", id, TRUE)
                  /\ d' = [d EXCEPT
                            !.cachedPGrp = IF d.placementGroup = autoSpreadPgName
                                           THEN id ELSE @]
                  /\ PlacementGroupResolved(d', id, nil)

\* src/driver/placement_groups.go:37-58, with the caching of line 70
makePlacementGroup ==
    /\ pc = "makePlacementGroup"
    /\ UNCHANGED <<op, host>>
    /\ \E created \in BOOLEAN :
         IF ~created
         THEN /\ UNCHANGED <<d, remote, uploaded>>
              /\ calls' = Log("PlacementGroup.Create", 0, FALSE)
              /\ PlacementGroupResolved(d, 0, Err("could not create placement group"))
         ELSE LET id == remote.nextID
                  grp == [id |-> id,
                          autoSpread |-> (d.placementGroup = autoSpreadPgName),
                          autoCreated |-> TRUE,
                          servers |-> 0]
              IN  /\ remote' = [remote EXCEPT !.pgs = @ \cup {grp}, !.nextID = @ + 1]
                  /\ uploaded' = uploaded \cup {[kind |-> "pg", id |-> id]}
                  /\ calls' = Log("PlacementGroup.Create", id, TRUE)
                  /\ d' = [d EXCEPT
                            !.dangling = Append(@, [kind |-> "pg", id |-> id]),
                            !.cachedPGrp = IF d.placementGroup = autoSpreadPgName
                                           THEN id ELSE @]
                  /\ PlacementGroupResolved(d', id, nil)

\* Variant of the end of PreCreateCheck that does not ask for a network
PreCreateCheckPrimaryIPsAnyNetworks ==
    /\ pc = "PreCreateCheckPrimaryIPs"
    /\ UNCHANGED <<remote, op, loc, uploaded, host>>
    /\ \E o \in Resolve(<< <<"pip4", "could not resolve primary IPv4">>,
                           <<"pip6", "could not resolve primary IPv6">> >>, d, remote) :
         /\ d' = o.d
         /\ calls' = Sent(o.reqs)
         /\ IF o.err # nil THEN Return(o.err) ELSE Return(nil)

PreCreateCheckPrimaryIPs ==
    /\ pc = "PreCreateCheckPrimaryIPs"
    /\ UNCHANGED <<remote, op, loc, uploaded, host>>
    /\ \E o \in Resolve(<< <<"pip4", "could not resolve primary IPv4">>,
                           <<"pip6", "could not resolve primary IPv6">> >>, d, remote) :
         /\ d' = o.d
         /\ calls' = Sent(o.reqs)
         /\ IF o.err # nil THEN Return(o.err)
            ELSE IF d.UsePrivateNetwork /\ Len(d.Networks) = 0
            THEN Return(Err("No private network attached."))
            ELSE Return(nil)

----------------------------------------------------------------------------
(* Create (src/unnamed/part_005:452-500) and key upload                    *)
(* (src/driver/ssh_keys.go)                                                *)

\* prepareLocalKey: copy or generate the key pair; the deferred rollback is
\* registered only after it succeeded
Create ==
    /\ pc = "Create"
    /\ UNCHANGED <<d, remote, op, calls, uploaded, host>>
    /\ \E prepared \in LocalIO :
         IF ~prepared
         THEN /\ loc' = loc
              /\ Return(Err(IF d.originalKey # "" THEN "could not copy ssh key pair"
                                                  ELSE "could not generate ssh key"))
         ELSE loc' = [loc EXCEPT !.i = 0] /\ Goto("createRemoteKeys")

\* the remote key carrying the fingerprint of the public key, nil if there
\* is none, or a transport error
getRemoteKeyWithSameFingerprintNullable(rr, fp) ==
    { [err |-> Err("could not get sshkey by fingerprint"), key |-> NoKey] }
    \cup (IF \E k \in rr.keys : k.fp = fp
          THEN {[err |-> nil, key |-> k] : k \in {k \in rr.keys : k.fp = fp}}
          ELSE {[err |-> nil, key |-> NoKey]})

\* Variant of makeKey that uploads the key without registering its deletion
makeKeyUnregistered(dd, rr, fp) ==
    LET key == [id |-> rr.nextID, fp |-> fp]
    IN  { [err |-> Err("could not create ssh key"), key |-> NoKey, d |-> dd, r |-> rr],
          [err |-> nil, key |-> key, d |-> dd,
           r |-> [rr EXCEPT !.keys = @ \cup {key}, !.nextID = @ + 1]] }

\* makeKey uploads the key and registers its deletion (ssh_keys.go:131-153):
\* the possible [err, key, d, r]
makeKey(dd, rr, fp) ==
    LET key == [id |-> rr.nextID, fp |-> fp]
    IN  { [err |-> Err("could not create ssh key"), key |-> NoKey, d |-> dd, r |-> rr],
          [err |-> nil, key |-> key,
           d |-> [dd EXCEPT !.dangling = Append(@, [kind |-> "key", id |-> key.id])],
           r |-> [rr EXCEPT !.keys = @ \cup {key}, !.nextID = @ + 1]] }

\* the public key createRemoteKeys handles at position i: 0 is the machine's
\* own key, i > 0 the i-th additional key
PubKeyAt(dd, i) == IF i = 0 THEN PrimaryPub ELSE dd.AdditionalKeys[i]

\* Variant of KeySettled that records every additional key, reused or uploaded
KeySettledAlwaysRecorded(dd, i, key, isNew) ==
    IF i = 0
    THEN [dd EXCEPT !.KeyID = key.id,
                    !.IsExistingKey = IF isNew THEN @ ELSE TRUE]
    ELSE [dd EXCEPT !.AdditionalKeyIDs = Append(@, key.id),
                    !.cachedAdditionalKeys = Append(@, key.id)]

\* Variant of KeySettled that leaves IsExistingKey alone when the primary
\* key was found at the provider
KeySettledFoundAsOwn(dd, i, key, isNew) ==
    IF i = 0
    THEN [dd EXCEPT !.KeyID = key.id]
    ELSE [dd EXCEPT !.AdditionalKeyIDs = IF isNew THEN Append(@, key.id) ELSE @,
                    !.cachedAdditionalKeys = Append(@, key.id)]

\* the driver after createRemoteKeys settled key (found or uploaded) at position i
KeySettled(dd, i, key, isNew) ==
    IF i = 0
    THEN [dd EXCEPT !.KeyID = key.id,
                    !.IsExistingKey = IF isNew THEN @ ELSE TRUE]
    ELSE [dd EXCEPT !.AdditionalKeyIDs = IF isNew THEN Append(@, key.id) ELSE @,
                    !.cachedAdditionalKeys = Append(@, key.id)]

\* one round of createRemoteKeys (ssh_keys.go:64-113): the primary key when
\* no key ID is set, then each additional key
createRemoteKeys ==
    /\ pc = "createRemoteKeys"
    /\ UNCHANGED <<op, host>>
    /\ LET i == loc.i
           next == IF i = Len(d.AdditionalKeys) THEN "getPlacementGroup"
                   ELSE "createRemoteKeys"
       IN  IF i = 0 /\ d.KeyID # 0
           THEN /\ UNCHANGED <<d, remote, calls, uploaded>>
                /\ loc' = [loc EXCEPT !.i = i + 1]
                /\ Goto(next)
           ELSE \E l \in getRemoteKeyWithSameFingerprintNullable(remote, PubKeyAt(d, i)),
                   readable \in LocalIO :
                  IF i = 0 /\ ~readable
                  THEN /\ UNCHANGED <<d, remote, calls, uploaded>>
                       /\ Deferred(d, Err("could not read ssh public key"))
                  ELSE IF l.err # nil
                  THEN /\ UNCHANGED <<d, remote, calls, uploaded>>
                       /\ Deferred(d, Wrap(l.err,
                            IF i = 0 THEN "error retrieving potentially existing key"
                                     ELSE "error checking for existing key"))
                  ELSE IF l.key # NoKey
                  THEN /\ d' = KeySettled(d, i, l.key, FALSE)
                       /\ UNCHANGED <<remote, calls, uploaded>>
                       /\ loc' = [loc EXCEPT !.i = i + 1]
                       /\ Goto(next)
                  ELSE \E m \in makeKey(d, remote, PubKeyAt(d, i)) :
                         /\ remote' = m.r
                         /\ calls' = Log("SSHKey.Create", m.key.id, m.err = nil)
                         /\ IF m.err # nil
                            THEN /\ d' = m.d
                                 /\ uploaded' = uploaded
                                 /\ Deferred(m.d,
                                      IF i = 0 THEN m.err
                                      ELSE Wrap(m.err, "error creating new key"))
                            ELSE /\ d' = KeySettled(m.d, i, m.key, TRUE)
                                 /\ uploaded' = uploaded \cup {[kind |-> "key", id |-> m.key.id]}
                                 /\ loc' = [loc EXCEPT !.i = i + 1]
                                 /\ Goto(next)

\* what makeCreateServerOptions resolves after the placement group, in
\* the order of the code, with the context it wraps each error in
CreateServerGetters ==
    << <<"userData", "">>, <<"pip4", "">>, <<"pip6", "">>, <<"networks", "">>,
       <<"firewalls", "">>, <<"volumes", "">>,
       <<"locationNullable", "could not get location">>,
       <<"type", "could not get type">>,
       <<"image", "could not get image">>,
       <<"key", "could not get ssh key">> >>

\* the hcloud.ServerCreateOpts of a driver that has resolved everything
\* the primary IPs getPrimaryIPv4 and getPrimaryIPv6 return on a driver
\* that has resolved them: "" is nil
ResolvedPrimaryIPv4(dd) == IF dd.cachedPrimaryIPv4 THEN dd.PrimaryIPv4 ELSE ""
ResolvedPrimaryIPv6(dd) == IF dd.cachedPrimaryIPv6 THEN dd.PrimaryIPv6 ELSE ""

\* Variant of setPublicNetIfRequired that enables a family only for its
\* primary IP
setPublicNetIfRequiredByPrimaryIP(dd) ==
    LET pip4 == ResolvedPrimaryIPv4(dd)
        pip6 == ResolvedPrimaryIPv6(dd)
    IN  IF dd.DisablePublic4 \/ dd.DisablePublic6 \/ pip4 # "" \/ pip6 # ""
        THEN [ EnableIPv4 |-> pip4 # "",
               EnableIPv6 |-> pip6 # "",
               IPv4 |-> pip4, IPv6 |-> pip6, set |-> TRUE ]
        ELSE NoPublicNet

\* setPublicNetIfRequired (src/driver/placement_groups.go:451-470) after
\* both primary IPs were resolved
setPublicNetIfRequired(dd) ==
    LET pip4 == ResolvedPrimaryIPv4(dd)
        pip6 == ResolvedPrimaryIPv6(dd)
    IN  IF dd.DisablePublic4 \/ dd.DisablePublic6 \/ pip4 # "" \/ pip6 # ""
        THEN [ EnableIPv4 |-> ~dd.DisablePublic4 \/ pip4 # "",
               EnableIPv6 |-> ~dd.DisablePublic6 \/ pip6 # "",
               IPv4 |-> pip4, IPv6 |-> pip6, set |-> TRUE ]
        ELSE NoPublicNet

ServerCreateOpts(dd, pgrp) ==
    [ PlacementGroup |-> pgrp, Networks |-> dd.Networks, Firewalls |-> dd.Firewalls,
      Volumes |-> dd.Volumes,
      Location |-> IF dd.cachedLocation THEN dd.Location ELSE "",
      SSHKeys |-> Append(dd.cachedAdditionalKeys, dd.cachedKey.id),
      PublicNet |-> setPublicNetIfRequired(dd) ]

\* Variant of makeCreateServerOptions that hands the options over whether
\* or not everything was resolved
makeCreateServerOptionsUnchecked ==
    /\ pc = "makeCreateServerOptions"
    /\ UNCHANGED <<remote, op, uploaded, host>>
    /\ \E o \in Resolve(CreateServerGetters, d, remote) :
         /\ d' = o.d
         /\ calls' = Sent(o.reqs)
         /\ loc' = [loc EXCEPT !.srvopts = ServerCreateOpts(o.d, loc.pgrp)]
         /\ Goto("ServerCreate")

\* makeCreateServerOptions after the placement group
\* (src/driver/placement_groups.go:137-186)
makeCreateServerOptions ==
    /\ pc = "makeCreateServerOptions"
    /\ UNCHANGED <<remote, op, uploaded, host>>
    /\ \E o \in Resolve(CreateServerGetters, d, remote) :
         /\ d' = o.d
         /\ calls' = Sent(o.reqs)
         /\ IF o.err # nil THEN Deferred(o.d, o.err)
            ELSE /\ loc' = [loc EXCEPT !.srvopts = ServerCreateOpts(o.d, loc.pgrp)]
                 /\ Goto("ServerCreate")

\* Server.Create (part_005:471-477)
ServerCreate ==
    /\ pc = "ServerCreate"
    /\ UNCHANGED <<d, op, uploaded, host>>
    /\ \E accepted \in BOOLEAN :
         IF ~accepted
         THEN /\ remote' = remote
              /\ calls' = Log("Server.Create", 0, FALSE)
              /\ Deferred(d, Wrap(Err("server create failed"), "could not create server"))
         ELSE LET id == remote.nextID
              IN  /\ remote' = [remote EXCEPT
                        !.server = [id |-> id, status |-> "initializing",
                                    pg |-> loc.pgrp, privateNet |-> FALSE],
                        !.pgs = {IF g.id = loc.pgrp
                                 THEN [g EXCEPT !.servers = @ + 1] ELSE g : g \in @},
                        !.action = [cmd |-> "create_server", status |-> "running"],
                        !.nextID = @ + 1]
                  /\ calls' = Log("Server.Create", id, TRUE)
                  /\ loc' = [loc EXCEPT !.srv = id]
                  /\ Goto("waitForAction")

----------------------------------------------------------------------------
(* Waiting (src/driver/hetzner_query.go:160-182,                           *)
(* src/driver/placement_groups.go:99-119 and 472-504)                      *)

\* the statuses the provider can have moved a polled action to
ActionProgress(status) ==
    IF status = "running" THEN {"running", "success", "error"} ELSE {status}

\* where Remove continues after the server step
KeyCleanup == IF d.AdditionalKeyIDs = <<>> THEN "RemovePrimaryKey" ELSE "RemoveAdditionalKeys"

\* waitForAction has returned err to the running method
ActionAwaited(err) ==
    IF op = "Create"
    THEN IF err # nil
         THEN d' = d /\ Deferred(d, Wrap(err, "could not wait for action"))
         ELSE /\ d' = [d EXCEPT !.ServerID = loc.srv]
              /\ loc' = loc
              /\ Goto("waitForRunningServer")
    ELSE IF op = "Remove"
    THEN /\ d' = d
         /\ IF err # nil
            THEN loc' = loc /\ Return(Wrap(err, "could not wait for deletion"))
            ELSE loc' = [loc EXCEPT !.i = 1] /\ Goto(KeyCleanup)
    ELSE d' = d /\ loc' = loc /\ Return(err)

\* one poll of waitForAction; a poll that sees the action still running
\* sleeps and polls again
waitForAction ==
    /\ pc = "waitForAction"
    /\ UNCHANGED <<op, calls, uploaded, host>>
    /\ \E answer \in {"error", "absent", "action"} :
         IF answer = "error"
         THEN remote' = remote /\ ActionAwaited(Err("could not get client by ID"))
         ELSE IF answer = "absent"
         THEN remote' = remote /\ ActionAwaited(Err("action not found"))
         ELSE \E s \in ActionProgress(remote.action.status) :
                /\ remote' = [remote EXCEPT !.action.status = s]
                /\ IF s = "success" THEN ActionAwaited(nil)
                   ELSE IF s = "error" THEN ActionAwaited(Err("action failed"))
                   ELSE UNCHANGED <<d, pc, loc, result>>

\* Variant of the switch of GetState that reports every status it has no
\* case for as Stopped
MapStatusDefaultStopped(status) ==
    CASE status = "initializing" -> "Starting"
      [] status = "running" -> "Running"
      [] OTHER -> "Stopped"

\* the switch of GetState (part_005:531-539)
MapStatus(status) ==
    CASE status = "initializing" -> "Starting"
      [] status = "running" -> "Running"
      [] status = "off" -> "Stopped"
      [] OTHER -> "None"

\* GetState (part_005:522-540): Server.GetByID(d.ServerID), never cached
GetStateOutcomes(dd, rr) ==
    { [err |-> Wrap(Err("transport"), "could not get server by ID"), state |-> "None"],
      IF dd.ServerID = 0 \/ rr.server.id # dd.ServerID
      THEN [err |-> Err("server not found"), state |-> "None"]
      ELSE [err |-> nil, state |-> MapStatus(rr.server.status)] }

\* Variant of waitForRunningServer that gives up after the elapsed time
\* whatever WaitForRunningTimeout is
waitForRunningServerAlwaysTimed ==
    /\ pc = "waitForRunningServer"
    /\ UNCHANGED <<op, calls, uploaded, host>>
    /\ \E st \in ServerStatuses, elapsed \in BOOLEAN :
         /\ remote' = [remote EXCEPT !.server.status = st]
         /\ \E g \in GetStateOutcomes(d, remote') :
              /\ d' = d
              /\ IF g.err # nil
                 THEN Deferred(d, Wrap(g.err, "could not get state"))
                 ELSE IF g.state = "Running"
                 THEN loc' = loc /\ Goto("configureNetworkAccess")
                 ELSE IF elapsed
                 THEN Deferred(d, Err("server exceeded wait-for-running-timeout"))
                 ELSE UNCHANGED <<pc, loc, result>>

\* one poll of waitForRunningServer; the server boots while Create waits
waitForRunningServer ==
    /\ pc = "waitForRunningServer"
    /\ UNCHANGED <<op, calls, uploaded, host>>
    /\ \E st \in ServerStatuses, elapsed \in BOOLEAN :
         /\ remote' = [remote EXCEPT !.server.status = st]
         /\ \E g \in GetStateOutcomes(d, remote') :
              /\ d' = d
              /\ IF g.err # nil
                 THEN Deferred(d, Wrap(g.err, "could not get state"))
                 ELSE IF g.state = "Running"
                 THEN loc' = loc /\ Goto("configureNetworkAccess")
                 ELSE IF d.WaitForRunningTimeout > 0 /\ elapsed
                 THEN Deferred(d, Err("server exceeded wait-for-running-timeout"))
                 ELSE UNCHANGED <<pc, loc, result>>

\* Variant of configureNetworkAccess that looks at DisablePublic4 before
\* UsePrivateNetwork
configureNetworkAccessPublicFirst ==
    /\ pc = "configureNetworkAccess"
    /\ UNCHANGED <<op, calls, uploaded, host>>
    /\ IF d.UsePrivateNetwork /\ ~d.DisablePublic4
       THEN \E answer \in {"error", "attached", "pending"} :
              IF answer = "error"
              THEN /\ UNCHANGED <<d, remote>>
                   /\ Deferred(d, Wrap(Err("transport"), "could not get newly created server"))
              ELSE IF answer = "attached" \/ remote.server.privateNet
              THEN /\ remote' = [remote EXCEPT !.server.privateNet = TRUE]
                   /\ d' = [d EXCEPT !.IPAddress = "private", !.dangling = <<>>]
                   /\ Deferred(d', nil)
              ELSE UNCHANGED <<d, remote, pc, loc, result>>
       ELSE /\ remote' = remote
            /\ d' = [d EXCEPT !.IPAddress = IF d.DisablePublic4 THEN "ipv6" ELSE "ipv4",
                              !.dangling = <<>>]
            /\ Deferred(d', nil)

\* Variant of the success exit of Create that leaves the dangling list as
\* it is
configureNetworkAccessKeepDangling ==
    /\ pc = "configureNetworkAccess"
    /\ UNCHANGED <<op, calls, uploaded, host>>
    /\ IF d.UsePrivateNetwork
       THEN \E answer \in {"error", "attached", "pending"} :
              IF answer = "error"
              THEN /\ UNCHANGED <<d, remote>>
                   /\ Deferred(d, Wrap(Err("transport"), "could not get newly created server"))
              ELSE IF answer = "attached" \/ remote.server.privateNet
              THEN /\ remote' = [remote EXCEPT !.server.privateNet = TRUE]
                   /\ d' = [d EXCEPT !.IPAddress = "private"]
                   /\ Deferred(d', nil)
              ELSE UNCHANGED <<d, remote, pc, loc, result>>
       ELSE /\ remote' = remote
            /\ d' = [d EXCEPT !.IPAddress = IF d.DisablePublic4 THEN "ipv6" ELSE "ipv4"]
            /\ Deferred(d', nil)

\* configureNetworkAccess, then the success exit of Create
\* (part_005:490-499): the dangling list is cleared before the deferred
\* destroyDangling runs
configureNetworkAccess ==
    /\ pc = "configureNetworkAccess"
    /\ UNCHANGED <<op, calls, uploaded, host>>
    /\ IF d.UsePrivateNetwork
       THEN \E answer \in {"error", "attached", "pending"} :
              IF answer = "error"
              THEN /\ UNCHANGED <<d, remote>>
                   /\ Deferred(d, Wrap(Err("transport"), "could not get newly created server"))
              ELSE IF answer = "attached" \/ remote.server.privateNet
              THEN /\ remote' = [remote EXCEPT !.server.privateNet = TRUE]
                   /\ d' = [d EXCEPT !.IPAddress = "private", !.dangling = <<>>]
                   /\ Deferred(d', nil)
              ELSE UNCHANGED <<d, remote, pc, loc, result>>
       ELSE /\ remote' = remote
            /\ d' = [d EXCEPT !.IPAddress = IF d.DisablePublic4 THEN "ipv6" ELSE "ipv4",
                              !.dangling = <<>>]
            /\ Deferred(d', nil)

\* a Delete request for a resource the provider does not have fails
DeleteOutcomes(exists) == IF exists THEN {TRUE, FALSE} ELSE {FALSE}

\* the provider without the deleted resource
Deleted(rr, res) ==
    IF res.kind = "key"
    THEN [rr EXCEPT !.keys = {k \in @ : k.id # res.id}]
    ELSE [rr EXCEPT !.pgs = {g \in @ : g.id # res.id}]

Exists(rr, res) ==
    IF res.kind = "key"
    THEN \E k \in rr.keys : k.id = res.id
    ELSE \E g \in rr.pgs : g.id = res.id

DeleteCall(res) == IF res.kind = "key" THEN "SSHKey.Delete" ELSE "PlacementGroup.Delete"

\* Variant of destroyDangling that gives up at the first destructor that fails
destroyDanglingStopAtFailure ==
    /\ pc = "destroyDangling"
    /\ UNCHANGED <<d, op, result, uploaded, host>>
    /\ LET res == d.dangling[loc.i]
       IN  \E ok \in DeleteOutcomes(Exists(remote, res)) :
             /\ remote' = IF ok THEN Deleted(remote, res) ELSE remote
             /\ calls' = Log(DeleteCall(res), res.id, ok)
             /\ IF loc.i = Len(d.dangling) \/ ~ok
                THEN pc' = "ret" /\ loc' = loc
                ELSE pc' = "destroyDangling" /\ loc' = [loc EXCEPT !.i = @ + 1]

\* Variant of destroyDangling that runs the destructors last to first
destroyDanglingReversed ==
    /\ pc = "destroyDangling"
    /\ UNCHANGED <<d, op, result, uploaded, host>>
    /\ LET res == d.dangling[Len(d.dangling) + 1 - loc.i]
       IN  \E ok \in DeleteOutcomes(Exists(remote, res)) :
             /\ remote' = IF ok THEN Deleted(remote, res) ELSE remote
             /\ calls' = Log(DeleteCall(res), res.id, ok)
    /\ IF loc.i = Len(d.dangling)
       THEN pc' = "ret" /\ loc' = loc
       ELSE pc' = "destroyDangling" /\ loc' = [loc EXCEPT !.i = @ + 1]

\* Variant of destroyDangling whose last step also deletes the server the
\* failed Create had made
destroyDanglingWithServer ==
    /\ pc = "destroyDangling"
    /\ UNCHANGED <<d, op, result, uploaded, host>>
    /\ LET res == d.dangling[loc.i]
           last == loc.i = Len(d.dangling) /\ loc.srv # 0
       IN  \E ok \in DeleteOutcomes(Exists(remote, res)) :
             /\ remote' = IF last
                          THEN [(IF ok THEN Deleted(remote, res) ELSE remote)
                                   EXCEPT !.server = NoServer]
                          ELSE IF ok THEN Deleted(remote, res) ELSE remote
             /\ calls' = IF last
                         THEN Append(Log(DeleteCall(res), res.id, ok),
                                     [c |-> "Server.Delete", id |-> loc.srv, ok |-> TRUE])
                         ELSE Log(DeleteCall(res), res.id, ok)
    /\ IF loc.i = Len(d.dangling)
       THEN pc' = "ret" /\ loc' = loc
       ELSE pc' = "destroyDangling" /\ loc' = [loc EXCEPT !.i = @ + 1]

\* destroyDangling (src/driver/cleanup.go:11-15): the destructor at loc.i
\* runs; its own failure is logged
destroyDangling ==
    /\ pc = "destroyDangling"
    /\ UNCHANGED <<d, op, result, uploaded, host>>
    /\ LET res == d.dangling[loc.i]
       IN  \E ok \in DeleteOutcomes(Exists(remote, res)) :
             /\ remote' = IF ok THEN Deleted(remote, res) ELSE remote
             /\ calls' = Log(DeleteCall(res), res.id, ok)
    /\ IF loc.i = Len(d.dangling)
       THEN pc' = "ret" /\ loc' = loc
       ELSE pc' = "destroyDangling" /\ loc' = [loc EXCEPT !.i = @ + 1]

----------------------------------------------------------------------------
(* Remove (src/unnamed/part_005:543-583, src/driver/cleanup.go:17-72)      *)

\* the hcloud.Server a lookup returns: the server with its placement group
\* and that group's member list as of the lookup
Handle(rr) ==
    [ id |-> rr.server.id,
      pg |-> IF \E g \in rr.pgs : g.id = rr.server.pg
             THEN CHOOSE g \in rr.pgs : g.id = rr.server.pg
             ELSE NoPG ]

\* getServerHandleNullable (hetzner_query.go:142-158): the possible
\* [err, srv, d, looked]; srv = NoHandle is the nil server
getServerHandleNullable(dd, rr) ==
    IF dd.cachedServer # NoHandle
    THEN {[err |-> nil, srv |-> dd.cachedServer, d |-> dd, looked |-> FALSE]}
    ELSE IF dd.ServerID = 0
    THEN {[err |-> Err("server ID was 0"), srv |-> NoHandle, d |-> dd, looked |-> FALSE]}
    ELSE LET srv == IF rr.server.id = dd.ServerID THEN Handle(rr) ELSE NoHandle
         IN  { [err |-> Err("could not get client by ID"), srv |-> NoHandle,
                d |-> dd, looked |-> TRUE],
               [err |-> nil, srv |-> srv,
                d |-> [dd EXCEPT !.cachedServer = srv], looked |-> TRUE] }

LogLookup(h) ==
    IF h.looked THEN Log("Server.GetByID", h.srv.id, h.err = nil) ELSE calls

\* Variant of Remove that treats a server that is gone as an error
RemoveServerRequired ==
    /\ pc = "Remove"
    /\ UNCHANGED <<remote, op, uploaded, host>>
    /\ IF d.ServerID = 0
       THEN /\ UNCHANGED <<d, calls>>
            /\ loc' = [loc EXCEPT !.i = 1]
            /\ Goto(KeyCleanup)
       ELSE \E h \in getServerHandleNullable(d, remote) :
              /\ d' = h.d
              /\ calls' = LogLookup(h)
              /\ loc' = loc
              /\ IF h.err # nil
                 THEN Return(Wrap(h.err, "could not get server handle"))
                 ELSE IF h.srv = NoHandle
                 THEN Return(Err("server not found"))
                 ELSE Goto("destroyServer")

\* destroyServer up to the handle (cleanup.go:40-52)
Remove ==
    /\ pc = "Remove"
    /\ UNCHANGED <<remote, op, uploaded, host>>
    /\ IF d.ServerID = 0
       THEN /\ UNCHANGED <<d, calls>>
            /\ loc' = [loc EXCEPT !.i = 1]
            /\ Goto(KeyCleanup)
       ELSE \E h \in getServerHandleNullable(d, remote) :
              /\ d' = h.d
              /\ calls' = LogLookup(h)
              /\ IF h.err # nil
                 THEN loc' = loc /\ Return(Wrap(h.err, "could not get server handle"))
                 ELSE IF h.srv = NoHandle
                 THEN loc' = [loc EXCEPT !.i = 1] /\ Goto(KeyCleanup)
                 ELSE loc' = loc /\ Goto("destroyServer")

\* Server.DeleteWithResult (cleanup.go:55-58)
destroyServer ==
    /\ pc = "destroyServer"
    /\ UNCHANGED <<d, op, loc, uploaded, host>>
    /\ \E ok \in DeleteOutcomes(remote.server.id = d.cachedServer.id) :
         /\ calls' = Log("Server.Delete", d.cachedServer.id, ok)
         /\ IF ~ok
            THEN remote' = remote /\ Return(Wrap(Err("server delete failed"), "could not delete server"))
            ELSE /\ remote' = [remote EXCEPT
                       !.server = NoServer,
                       !.pgs = {IF g.id = remote.server.pg
                                THEN [g EXCEPT !.servers = @ - 1] ELSE g : g \in @},
                       !.action = [cmd |-> "delete_server", status |-> "running"]]
                 /\ Goto("removeEmptyServerPlacementGroup")

\* Variant of removeEmptyServerPlacementGroup whose failure ends Remove
removeEmptyServerPlacementGroupFatal ==
    /\ pc = "removeEmptyServerPlacementGroup"
    /\ UNCHANGED <<d, op, loc, uploaded, host>>
    /\ LET pg == d.cachedServer.pg
       IN  IF pg = NoPG \/ pg.servers > 1 \/ ~pg.autoCreated
           THEN UNCHANGED <<remote, calls>> /\ Goto("waitForAction")
           ELSE \E ok \in DeleteOutcomes(Exists(remote, [kind |-> "pg", id |-> pg.id])) :
                  /\ remote' = IF ok THEN Deleted(remote, [kind |-> "pg", id |-> pg.id])
                                ELSE remote
                  /\ calls' = Log("PlacementGroup.Delete", pg.id, ok)
                  /\ IF ok THEN Goto("waitForAction")
                     ELSE Return(Wrap(Err("group delete failed"),
                                      "could not remove placement group"))

\* Variant of removeEmptyServerPlacementGroup that does not look at the
\* auto-created label
removeEmptyServerPlacementGroupAnyLabel ==
    /\ pc = "removeEmptyServerPlacementGroup"
    /\ UNCHANGED <<d, op, loc, uploaded, host>>
    /\ LET pg == d.cachedServer.pg
       IN  IF pg = NoPG \/ pg.servers > 1
           THEN UNCHANGED <<remote, calls>>
           ELSE \E ok \in DeleteOutcomes(Exists(remote, [kind |-> "pg", id |-> pg.id])) :
                  /\ remote' = IF ok THEN Deleted(remote, [kind |-> "pg", id |-> pg.id])
                                ELSE remote
                  /\ calls' = Log("PlacementGroup.Delete", pg.id, ok)
    /\ Goto("waitForAction")

\* removeEmptyServerPlacementGroup (cleanup.go:17-38) on the handle's group;
\* its failure is logged (cleanup.go:60-63)
removeEmptyServerPlacementGroup ==
    /\ pc = "removeEmptyServerPlacementGroup"
    /\ UNCHANGED <<d, op, loc, uploaded, host>>
    /\ LET pg == d.cachedServer.pg
       IN  IF pg = NoPG \/ pg.servers > 1 \/ ~pg.autoCreated
           THEN UNCHANGED <<remote, calls>>
           ELSE \E ok \in DeleteOutcomes(Exists(remote, [kind |-> "pg", id |-> pg.id])) :
                  /\ remote' = IF ok THEN Deleted(remote, [kind |-> "pg", id |-> pg.id])
                                ELSE remote
                  /\ calls' = Log("PlacementGroup.Delete", pg.id, ok)
    /\ Goto("waitForAction")

\* one round of the additional-key loop (part_005:549-562).  The key the
\* lookup returned is passed to SSHKey.Delete as it is: on a failed lookup
\* and on an absent key it is nil, and Delete dereferences it
RemoveAdditionalKeys ==
    /\ pc = "RemoveAdditionalKeys"
    /\ UNCHANGED <<d, op, uploaded, host>>
    /\ LET id == d.AdditionalKeyIDs[loc.i]
           key == RemoteKeyByID(remote, id)
       IN  \E answer \in {"error", "answer"} :
             IF answer = "error" \/ key = NoKey
             THEN /\ remote' = remote
                  /\ calls' = Log("SSHKey.Delete", 0, FALSE)
                  /\ loc' = loc
                  /\ pc' = "panicked"
                  /\ result' = Err("panic: nil pointer dereference")
             ELSE \E ok \in DeleteOutcomes(TRUE) :
                    /\ remote' = IF ok THEN Deleted(remote, [kind |-> "key", id |-> id])
                                  ELSE remote
                    /\ calls' = Log("SSHKey.Delete", id, ok)
                    /\ loc' = [loc EXCEPT !.i = @ + 1]
                    /\ Goto(IF loc.i = Len(d.AdditionalKeyIDs)
                            THEN "RemovePrimaryKey" ELSE "RemoveAdditionalKeys")

\* Variant of the primary-key step that ignores IsExistingKey
RemovePrimaryKeyAlways ==
    /\ pc = "RemovePrimaryKey"
    /\ UNCHANGED <<op, loc, uploaded, host>>
    /\ IF d.KeyID # 0
       THEN \E o \in getKey(d, remote) :
              /\ d' = o.d
              /\ IF o.err # nil
                 THEN /\ remote' = remote
                      /\ calls' = Sent(o.reqs)
                      /\ Return(Wrap(o.err, "could not get ssh key"))
                 ELSE \E ok \in DeleteOutcomes(Exists(remote, [kind |-> "key", id |-> o.d.cachedKey.id])) :
                        /\ remote' = IF ok
                                      THEN Deleted(remote, [kind |-> "key", id |-> o.d.cachedKey.id])
                                      ELSE remote
                        /\ calls' = Append(Sent(o.reqs), [c |-> "SSHKey.Delete", id |-> o.d.cachedKey.id, ok |-> ok])
                        /\ IF ok THEN Return(nil)
                           ELSE Return(Wrap(Err("key delete failed"), "could not delete ssh key"))
       ELSE UNCHANGED <<d, remote, calls>> /\ Return(nil)

\* the primary key (part_005:564-582)
RemovePrimaryKey ==
    /\ pc = "RemovePrimaryKey"
    /\ UNCHANGED <<op, loc, uploaded, host>>
    /\ IF ~d.IsExistingKey /\ d.KeyID # 0
       THEN \E o \in getKey(d, remote) :
              /\ d' = o.d
              /\ IF o.err # nil
                 THEN /\ remote' = remote
                      /\ calls' = Sent(o.reqs)
                      /\ Return(Wrap(o.err, "could not get ssh key"))
                 ELSE \E ok \in DeleteOutcomes(Exists(remote, [kind |-> "key", id |-> o.d.cachedKey.id])) :
                        /\ remote' = IF ok
                                      THEN Deleted(remote, [kind |-> "key", id |-> o.d.cachedKey.id])
                                      ELSE remote
                        /\ calls' = Append(Sent(o.reqs), [c |-> "SSHKey.Delete", id |-> o.d.cachedKey.id, ok |-> ok])
                        /\ IF ok THEN Return(nil)
                           ELSE Return(Wrap(Err("key delete failed"), "could not delete ssh key"))
       ELSE UNCHANGED <<d, remote, calls>> /\ Return(nil)

----------------------------------------------------------------------------
(* Start, Stop, Restart, Kill (part_005:585-654) and GetState              *)

PowerMethods == {"Start", "Stop", "Restart", "Kill"}

\* the Server client call of each method and the wrap of its failure
PowerCall(m) ==
    CASE m = "Start" -> "Server.Poweron"
      [] m = "Stop" -> "Server.Shutdown"
      [] m = "Restart" -> "Server.Reboot"
      [] m = "Kill" -> "Server.Poweroff"

PowerWrap(m) ==
    CASE m = "Start" -> "could not power on server"
      [] m = "Stop" -> "could not shutdown server"
      [] m = "Restart" -> "could not reboot server"
      [] m = "Kill" -> "could not poweroff server"

\* getServerHandle (hetzner_query.go:131-140) as the four methods call it
getServerHandle ==
    /\ pc = "getServerHandle"
    /\ UNCHANGED <<remote, op, loc, uploaded, host>>
    /\ \E h \in getServerHandleNullable(d, remote) :
         /\ d' = h.d
         /\ calls' = LogLookup(h)
         /\ IF h.err # nil THEN Return(Wrap(h.err, "could not get server handle"))
            ELSE IF h.srv = NoHandle
            THEN Return(Wrap(Err("server does not exist"), "could not get server handle"))
            ELSE Goto("PowerAction")

\* Variant of the power request that does not await the action
PowerActionNotAwaited ==
    /\ pc = "PowerAction"
    /\ UNCHANGED <<d, op, loc, uploaded, host>>
    /\ \E ok \in DeleteOutcomes(remote.server.id = d.cachedServer.id) :
         /\ calls' = Log(PowerCall(op), d.cachedServer.id, ok)
         /\ IF ~ok
            THEN remote' = remote /\ Return(Wrap(Err("request failed"), PowerWrap(op)))
            ELSE /\ remote' = [remote EXCEPT !.action = [cmd |-> PowerCall(op), status |-> "running"]]
                 /\ Return(nil)

\* Server.Poweron / Shutdown / Reboot / Poweroff on the handle
PowerAction ==
    /\ pc = "PowerAction"
    /\ UNCHANGED <<d, op, loc, uploaded, host>>
    /\ \E ok \in DeleteOutcomes(remote.server.id = d.cachedServer.id) :
         /\ calls' = Log(PowerCall(op), d.cachedServer.id, ok)
         /\ IF ~ok
            THEN remote' = remote /\ Return(Wrap(Err("request failed"), PowerWrap(op)))
            ELSE /\ remote' = [remote EXCEPT !.action = [cmd |-> PowerCall(op), status |-> "running"]]
                 /\ Goto("waitForAction")

\* GetState as the host calls it; the state is returned in loc
GetState ==
    /\ pc = "GetState"
    /\ UNCHANGED <<d, remote, op, uploaded, host>>
    /\ \E g \in GetStateOutcomes(d, remote) :
         /\ calls' = Log("Server.GetByID", d.ServerID, g.err = nil)
         /\ loc' = [loc EXCEPT !.state = g.state]
         /\ Return(g.err)

----------------------------------------------------------------------------
(* The host (libmachine) and the provider's other users                    *)

LifecycleMethods == {"Remove", "GetState"} \cup PowerMethods

\* the first step of each driver method
Entry(m) ==
    IF m = "PreCreateCheck" THEN "setupExistingKey"
    ELSE IF m \in PowerMethods THEN "getServerHandle"
    ELSE m

\* libmachine runs PreCreateCheck once, Create once after it succeeded, and
\* the lifecycle methods after Create has returned, until a Remove succeeded
HostCall ==
    /\ pc = "idle"
    /\ UNCHANGED <<d, remote, uploaded>>
    /\ \E m \in {"PreCreateCheck", "Create"} \cup LifecycleMethods :
         /\ IF m = "PreCreateCheck" THEN host.phase = "new" /\ host' = host
            ELSE IF m = "Create" THEN host.phase = "checked" /\ host' = host
            ELSE /\ host.phase \in {"created", "failed"}
                 /\ host.ops < MaxOps
                 /\ host' = [host EXCEPT !.ops = @ + 1]
         /\ op' = m
         /\ pc' = Entry(m)
    /\ loc' = NoLoc
    /\ result' = nil
    /\ calls' = <<>>

\* the method has returned; the host takes note of the result.  The action
\* the method awaited is finished business: no later call refers to it
HostReturn ==
    /\ pc = "ret"
    /\ UNCHANGED <<d, uploaded>>
    /\ remote' = [remote EXCEPT !.action = NoAction]
    /\ host' = [host EXCEPT !.phase =
                  IF op = "PreCreateCheck"
                  THEN IF result = nil THEN "checked" ELSE "rejected"
                  ELSE IF op = "Create"
                  THEN IF result = nil THEN "created" ELSE "failed"
                  ELSE IF op = "Remove" /\ result = nil THEN "removed"
                  ELSE @]
    /\ pc' = "idle"
    /\ op' = ""
    /\ loc' = NoLoc
    /\ result' = nil
    /\ calls' = <<>>

\* between two lifecycle calls somebody else deletes the server, ...
RemoteServerVanishes ==
    /\ pc = "idle" /\ host.phase \in {"created", "failed"} /\ host.ops < MaxOps
    /\ remote.server.id # 0
    /\ remote' = [remote EXCEPT
          !.server = NoServer,
          !.pgs = {IF g.id = remote.server.pg
                   THEN [g EXCEPT !.servers = @ - 1] ELSE g : g \in @}]
    /\ UNCHANGED <<d, pc, op, loc, result, calls, uploaded, host>>

\* ... the server changes its status, ...
RemoteStatusChange ==
    /\ pc = "idle" /\ host.phase \in {"created", "failed"} /\ host.ops < MaxOps
    /\ remote.server.id # 0
    /\ \E st \in ServerStatuses \ {remote.server.status} :
         remote' = [remote EXCEPT !.server.status = st]
    /\ UNCHANGED <<d, pc, op, loc, result, calls, uploaded, host>>

\* ... or somebody deletes a key this driver uploaded
RemoteKeyVanishes ==
    /\ pc = "idle" /\ host.phase \in {"created", "failed"} /\ host.ops < MaxOps
    /\ \E k \in remote.keys :
         /\ [kind |-> "key", id |-> k.id] \in uploaded
         /\ remote' = [remote EXCEPT !.keys = @ \ {k}]
    /\ UNCHANGED <<d, pc, op, loc, result, calls, uploaded, host>>

Next ==
    \/ HostCall \/ HostReturn
    \/ setupExistingKey \/ PreCreateCheck \/ getPlacementGroup \/ makePlacementGroup
    \/ PreCreateCheckPrimaryIPs
    \/ Create \/ createRemoteKeys \/ makeCreateServerOptions \/ ServerCreate
    \/ waitForAction \/ waitForRunningServer \/ configureNetworkAccess
    \/ destroyDangling
    \/ Remove \/ destroyServer \/ removeEmptyServerPlacementGroup
    \/ RemoveAdditionalKeys \/ RemovePrimaryKey
    \/ getServerHandle \/ PowerAction \/ GetState
    \/ RemoteServerVanishes \/ RemoteStatusChange \/ RemoteKeyVanishes

Spec == Init /\ [][Next]_vars

----------------------------------------------------------------------------
(* Configuration binding on its own: the host binds one set of options to  *)
(* a new driver, and the user data of an accepted configuration is read as *)
(* makeCreateServerOptions reads it.                                       *)

Options(token, image, imageID, arch, userData, userDataFile, fromFile, usePrivate, disablePublic, disable4, legacy4, disable6, legacy6, primary4, primary6, placementGroup, autoSpread, serverLabels, keyLabels) ==
    (flagAPIToken :> token) @@ (flagImage :> image) @@ (flagImageID :> imageID)
    @@ (flagImageArch :> arch) @@ (flagUserData :> userData)
    @@ (flagUserDataFile :> userDataFile) @@ (legacyFlagUserDataFromFile :> fromFile)
    @@ (flagUsePrivateNetwork :> usePrivate) @@ (flagDisablePublic :> disablePublic)
    @@ (flagDisablePublic4 :> disable4) @@ (legacyFlagDisablePublic4 :> legacy4)
    @@ (flagDisablePublic6 :> disable6) @@ (legacyFlagDisablePublic6 :> legacy6)
    @@ (flagPrimary4 :> primary4) @@ (flagPrimary6 :> primary6)
    @@ (flagPlacementGroup :> placementGroup) @@ (flagAutoSpread :> autoSpread)
    @@ (flagServerLabel :> serverLabels) @@ (flagKeyLabel :> keyLabels)

ImageChoices == {"", defaultImage, "ubuntu-18.04", "debian-12"}
ImageIDChoices == {0, 7}
ImageArchChoices == {"", "arm", "x86", "riscv"}
\* a value of --hetzner-user-data, which the legacy flag makes a path
UserDataChoices == {"", "user-data"}
PrimaryIPChoices == {"", "pip"}
LabelChoices == {<<>>, << <<"k", "v">> >>, << <<"novalue">> >>}

\* The options examined: every combination of the image, user-data and
\* network flags with a token and no placement group or label, and every
\* combination of the token, placement-group and label flags with the
\* defaults of the others.
FlagOptions ==
    {Options("token", im, id, ar, ud, udf, ff, up, dp, d4, l4, d6, l6, p4, p6, "", FALSE, <<>>, <<>>) :
        im \in ImageChoices, id \in ImageIDChoices, ar \in ImageArchChoices,
        ud \in UserDataChoices, udf \in UserDataFileChoices, ff \in BOOLEAN,
        up \in BOOLEAN, dp \in BOOLEAN, d4 \in BOOLEAN, l4 \in BOOLEAN,
        d6 \in BOOLEAN, l6 \in BOOLEAN,
        p4 \in PrimaryIPChoices, p6 \in PrimaryIPChoices}
    \cup
    {Options(tk, "", 0, "", "", "", FALSE, FALSE, FALSE, FALSE, FALSE, FALSE, FALSE, "", "", pg, as, sl, kl) :
        tk \in {"", "token"}, pg \in {"", NamedPG}, as \in BOOLEAN,
        sl \in LabelChoices, kl \in LabelChoices}

FlagInit ==
    /\ d = UnboundDriver
    /\ \E opts \in FlagOptions, file \in Files :
         loc = [opts |-> opts, file |-> file, userData |-> "", reqs |-> <<>>,
                PublicNet |-> NoPublicNet]
    /\ pc = "SetConfigFromFlags"
    /\ op = "SetConfigFromFlags"
    /\ result = nil
    /\ remote = Remote({}, {})
    /\ calls = <<>>
    /\ uploaded = {}
    /\ host = [phase |-> "new", ops |-> 0]

\* SetConfigFromFlags (src/driver/instrumentation_stub.go:32-34)
SetConfigFromFlags ==
    /\ pc = "SetConfigFromFlags"
    /\ LET bound == setConfigFromFlagsImpl(d, loc.opts)
       IN  /\ d' = bound.d
           /\ result' = bound.err
    /\ pc' = "bound"
    /\ UNCHANGED <<remote, op, loc, calls, uploaded, host>>

\* getUserData on a driver whose options were accepted
GetUserData ==
    /\ pc = "bound" /\ result = nil
    /\ LET read == readUserData(d, loc.file)
       IN  /\ result' = read.err
           /\ loc' = [loc EXCEPT !.userData = read.data]
    /\ pc' = "userData"
    /\ UNCHANGED <<d, remote, op, calls, uploaded, host>>

\* getImage on a driver whose options were accepted; loc.reqs keeps the
\* requests it sent
GetImage ==
    /\ pc = "bound" /\ result = nil
    /\ \E o \in getImage(d) :
         /\ d' = o.d
         /\ result' = o.err
         /\ loc' = [loc EXCEPT !.reqs = o.reqs]
    /\ pc' = "image"
    /\ UNCHANGED <<remote, op, calls, uploaded, host>>

\* the public-network section makeCreateServerOptions builds on a driver
\* whose options were accepted (placement_groups.go:150-153); loc.PublicNet
\* keeps it
SetPublicNet ==
    /\ pc = "bound" /\ result = nil
    /\ \E o \in Resolve(<< <<"pip4", "">>, <<"pip6", "">> >>, d, remote) :
         /\ d' = o.d
         /\ result' = o.err
         /\ loc' = [loc EXCEPT !.reqs = o.reqs,
                               !.PublicNet = IF o.err = nil THEN setPublicNetIfRequired(o.d)
                                             ELSE NoPublicNet]
    /\ pc' = "publicNet"
    /\ UNCHANGED <<remote, op, calls, uploaded, host>>

FlagNext == SetConfigFromFlags \/ GetUserData \/ GetImage \/ SetPublicNet

FlagSpec == FlagInit /\ [][FlagNext]_vars

----------------------------------------------------------------------------
(* Properties of Create and its rollback *)

\* the running method is at its return
Returns(m) == pc = "ret" /\ op = m

\* the positions of the requests named c in the log of the running method
CallsOf(cs) == {j \in 1..Len(calls) : calls[j].c \in cs}

DeleteCalls == CallsOf({"SSHKey.Delete", "PlacementGroup.Delete"})

\* a delete request for res has been issued by the running method
Invoked(res) ==
    \E j \in 1..Len(calls) : calls[j].c = DeleteCall(res) /\ calls[j].id = res.id

\* Create returned before its rollback was registered
PreparationFailed ==
    result \in {Err("could not copy ssh key pair"), Err("could not generate ssh key")}

\* C1: when Create returns an error after the local key pair was prepared,
\* a delete has been invoked for every entry of the dangling list, whether
\* or not earlier deletes of the rollback failed.
C1_RollbackInvokesEveryRegistered ==
    (Returns("Create") /\ result # nil /\ ~PreparationFailed)
        => \A i \in 1..Len(d.dangling) : Invoked(d.dangling[i])

\* Create has returned an error after a rollback whose failed delete was
\* followed by a further delete
C1_Witness ==
    /\ Returns("Create") /\ result # nil /\ ~PreparationFailed
    /\ Len(d.dangling) >= 2
    /\ \E j, k \in DeleteCalls : j < k /\ ~calls[j].ok

ServerCreateFailed == \E j \in CallsOf({"Server.Create"}) : ~calls[j].ok

\* C2: when the Server.Create request of Create failed, Create returns with
\* ServerID 0, having issued a delete for every key and placement group this
\* instance created (the group made by PreCreateCheck included), and the
\* error returned is the wrapped creation error.
C2_ServerCreateFailureRollsBack ==
    (Returns("Create") /\ ServerCreateFailed)
        => /\ d.ServerID = 0
           /\ \A res \in uploaded : Invoked(res)
           /\ result = <<"could not create server", "server create failed">>

\* the server request failed after a key was uploaded in this Create and a
\* placement group was created by the preceding PreCreateCheck, and a delete
\* of the rollback failed
C2_Witness ==
    /\ Returns("Create") /\ ServerCreateFailed
    /\ \E res \in uploaded : res.kind = "key"
    /\ \E res \in uploaded : res.kind = "pg"
    /\ CallsOf({"PlacementGroup.Create"}) = {}
    /\ \E j \in DeleteCalls : ~calls[j].ok

\* C3: when Create returns nil the dangling list is empty, no delete was
\* invoked during that Create, and every key and placement group this
\* instance created exists remotely.
C3_SuccessKeepsResources ==
    (Returns("Create") /\ result = nil)
        => /\ d.dangling = <<>>
           /\ DeleteCalls = {}
           /\ \A res \in uploaded : Exists(remote, res)

\* Create succeeded for a machine with an uploaded key and a created group
C3_Witness ==
    /\ Returns("Create") /\ result = nil
    /\ \E res \in uploaded : res.kind = "key"
    /\ \E res \in uploaded : res.kind = "pg"

----------------------------------------------------------------------------
(* Properties of Remove *)

UploadedKeyIDs == {res.id : res \in {r \in uploaded : r.kind = "key"}}

\* the keys Remove is entitled to delete
RemovableKeys ==
    Range(d.AdditionalKeyIDs)
    \cup (IF ~d.IsExistingKey /\ d.KeyID # 0 THEN {d.KeyID} ELSE {})

\* the keys the machine uses without having uploaded them
ReusedKeys ==
    ((IF d.IsExistingKey THEN {d.KeyID} ELSE {}) \cup Range(d.cachedAdditionalKeys))
    \ UploadedKeyIDs

\* C4: every SSHKey.Delete the driver issues for a key names a key this
\* instance uploaded; in Remove it names the primary key only if
\* IsExistingKey is false and KeyID is not 0, or an id recorded in
\* AdditionalKeyIDs; the keys the machine reused exist when Remove returns.
C4_OnlyUploadedKeysDeleted ==
    /\ \A j \in CallsOf({"SSHKey.Delete"}) :
          calls[j].id # 0
            => /\ calls[j].id \in UploadedKeyIDs
               /\ op = "Remove" => calls[j].id \in RemovableKeys
    /\ Returns("Remove") => \A id \in ReusedKeys : RemoteKeyByID(remote, id) # NoKey

\* Remove returned nil after deleting a key of a machine that reused another
C4_Witness ==
    /\ Returns("Remove") /\ result = nil
    /\ ReusedKeys # {}
    /\ \E j \in CallsOf({"SSHKey.Delete"}) : calls[j].ok

\* the lookup of the server answered that there is none
AbsentLookup == \E j \in CallsOf({"Server.GetByID"}) : calls[j].ok /\ calls[j].id = 0

\* Remove is past the server step
InKeyCleanup == pc \in {"RemoveAdditionalKeys", "RemovePrimaryKey", "ret", "panicked"}

\* the result of Remove is nil or comes from the primary-key step
KeyStepResult ==
    result = nil \/ result[1] \in {"could not get ssh key", "could not delete ssh key"}

\* C5: in Remove, once the lookup of the recorded server answered absent, no
\* server deletion is issued and Remove is in key cleanup with no error of the
\* server step; with ServerID 0 Remove issues no server lookup and no server
\* deletion at all.
C5_AbsentServerSkipped ==
    op = "Remove"
      => /\ AbsentLookup
              => /\ d.ServerID # 0
                 /\ CallsOf({"Server.Delete"}) = {}
                 /\ InKeyCleanup
                 /\ pc = "ret" => KeyStepResult
         /\ d.ServerID = 0
              => /\ CallsOf({"Server.GetByID", "Server.Delete"}) = {}
                 /\ pc = "Remove" \/ InKeyCleanup
                 /\ pc = "ret" => KeyStepResult

\* Remove found the recorded server gone, went on to delete a key and
\* returned nil
C5_Witness ==
    /\ Returns("Remove") /\ result = nil
    /\ AbsentLookup
    /\ \E j \in CallsOf({"SSHKey.Delete"}) : calls[j].ok

\* C6: in Remove a failed lookup or delete of an additional key (the key
\* being gone included) is only logged: Remove does not abort, and when it
\* returns from the key cleanup it has attempted every additional key.
C6_AdditionalKeyFailureOnlyLogged ==
    op = "Remove"
      => /\ pc # "panicked"
         /\ (pc = "ret" /\ KeyStepResult)
              => Cardinality(CallsOf({"SSHKey.Delete"})) >= Len(d.AdditionalKeyIDs)

\* C7: when Remove returns after the delete of a primary key this instance
\* uploaded failed, it returns "could not delete ssh key"; after a failed
\* delete of the auto-created placement group its result is still nil or the
\* error of a later step.
C7_PrimaryKeyFatalGroupLogged ==
    Returns("Remove")
      => /\ (~d.IsExistingKey
              /\ \E j \in CallsOf({"SSHKey.Delete"}) : calls[j].id = d.KeyID /\ ~calls[j].ok)
              => result = <<"could not delete ssh key", "key delete failed">>
         /\ (\E j \in CallsOf({"PlacementGroup.Delete"}) : ~calls[j].ok)
              => result = nil \/ result[1] \in {"could not wait for deletion",
                                                 "could not get ssh key",
                                                 "could not delete ssh key"}

\* Remove failed to delete the placement group, went on, and returned the
\* error of the failed delete of the primary key
C7_Witness ==
    /\ Returns("Remove")
    /\ \E j \in CallsOf({"PlacementGroup.Delete"}) : ~calls[j].ok
    /\ \E j \in CallsOf({"SSHKey.Delete"}) : calls[j].id = d.KeyID /\ ~calls[j].ok
    /\ result = <<"could not delete ssh key", "key delete failed">>

----------------------------------------------------------------------------
(* Properties of the key upload, the power methods and GetState *)

\* a round of createRemoteKeys that settled the key at position loc.i
KeyRound ==
    /\ pc = "createRemoteKeys"
    /\ pc' \in {"createRemoteKeys", "getPlacementGroup"}
    /\ ~(loc.i = 0 /\ d.KeyID # 0)

\* the reuse-or-upload decision of one round
ReuseOrUpload ==
    LET i == loc.i
        same == {k \in remote.keys : k.fp = PubKeyAt(d, i)}
        new == remote'.keys \ remote.keys
    IN  /\ remote.keys \subseteq remote'.keys
        /\ IF same # {}
           THEN /\ new = {}
                /\ IF i = 0
                   THEN d'.IsExistingKey /\ d'.KeyID \in {k.id : k \in same}
                   ELSE d'.AdditionalKeyIDs = d.AdditionalKeyIDs
           ELSE /\ Cardinality(new) = 1
                /\ \A k \in new :
                     /\ k.fp = PubKeyAt(d, i)
                     /\ IF i = 0
                        THEN ~d'.IsExistingKey /\ d'.KeyID = k.id
                        ELSE d'.AdditionalKeyIDs = Append(d.AdditionalKeyIDs, k.id)
        /\ IF i = 0
           THEN d'.AdditionalKeyIDs = d.AdditionalKeyIDs
           ELSE d'.KeyID = d.KeyID /\ d'.IsExistingKey = d.IsExistingKey

\* C8: a round of createRemoteKeys for the primary key (no key ID supplied)
\* or for an additional key uploads nothing when a remote key has the
\* fingerprint, and then sets IsExistingKey and KeyID to that key (primary)
\* or records nothing (additional); otherwise it uploads exactly one key,
\* leaves IsExistingKey false and sets KeyID to it (primary) or appends its
\* id to AdditionalKeyIDs (additional).
C8_ReuseOrUploadPerKey == [][KeyRound => ReuseOrUpload]_vars

\* createRemoteKeys has finished with the primary key reused by fingerprint,
\* one additional key uploaded and another additional key reused
C8_Witness ==
    /\ op = "Create" /\ pc = "getPlacementGroup"
    /\ d.IsExistingKey /\ d.cachedKey = NoKey
    /\ Len(d.AdditionalKeyIDs) >= 1
    /\ Len(d.cachedAdditionalKeys) > Len(d.AdditionalKeyIDs)

PowerCalls ==
    CallsOf({"Server.Poweron", "Server.Shutdown", "Server.Reboot", "Server.Poweroff"})

LookupFailed == \E j \in CallsOf({"Server.GetByID"}) : ~calls[j].ok

\* C9 as stated: a power method fails without a power request when no
\* server ID is recorded or the server does not exist remotely; otherwise
\* (the lookup permitting) it issues exactly one request of its kind, returns
\* nil only after the action succeeded and an error if the action failed.
C9_AsStated ==
    (pc = "ret" /\ op \in PowerMethods)
      => IF d.ServerID = 0 \/ remote.server.id # d.ServerID
         THEN result # nil /\ PowerCalls = {}
         ELSE /\ ~LookupFailed
                   => /\ Cardinality(PowerCalls) = 1
                      /\ \A j \in PowerCalls : calls[j].c = PowerCall(op)
              /\ result = nil => remote.action.status = "success"
              /\ remote.action.status = "error" => result # nil

\* C9 (amended): a power method fails without a power request when it
\* cannot resolve a server handle (no handle cached and no server ID
\* recorded, or the lookup fails or finds no server); with a handle, fresh
\* or cached by an earlier call, it issues exactly one request of its kind,
\* returns nil only if the request was accepted and a poll saw the action
\* succeed, and returns an error if the action failed.
C9_PowerActions ==
    (pc = "ret" /\ op \in PowerMethods)
      => /\ \A j \in PowerCalls : calls[j].c = PowerCall(op)
         /\ IF d.cachedServer = NoHandle
            THEN result # nil /\ PowerCalls = {}
            ELSE /\ Cardinality(PowerCalls) = 1
                 /\ result = nil
                      => /\ \A j \in PowerCalls : calls[j].ok
                         /\ remote.action.status = "success"
                 /\ remote.action.status = "error" => result # nil
         /\ (d.ServerID = 0
             \/ (remote.server.id # d.ServerID /\ CallsOf({"Server.GetByID"}) # {}))
              => result # nil /\ PowerCalls = {}

\* a power method returned nil after its one request
C9_Witness ==
    /\ pc = "ret" /\ op \in PowerMethods
    /\ result = nil
    /\ Cardinality(PowerCalls) = 1
    /\ remote.action = [cmd |-> PowerCall(op), status |-> "success"]

\* the result of GetState at its return, read off the remote server record
GetStateByRecord ==
    IF result = nil
    THEN /\ d.ServerID # 0 /\ remote.server.id = d.ServerID
         /\ loc.state = CASE remote.server.status = "initializing" -> "Starting"
                           [] remote.server.status = "running" -> "Running"
                           [] remote.server.status = "off" -> "Stopped"
                           [] OTHER -> "None"
    ELSE /\ result \in {<<"server not found">>,
                        <<"could not get server by ID", "transport">>}
         /\ result = <<"server not found">>
              => remote.server.id # d.ServerID \/ d.ServerID = 0

\* C10: GetState returns the state the status of the remote server record
\* maps to (initializing: Starting, running: Running, off: Stopped, any
\* other: None, without error), "server not found" when the server is
\* absent, and its step changes neither the driver nor the provider.
C10_GetStatePureRead ==
    /\ [](Returns("GetState") => GetStateByRecord)
    /\ [][pc = "GetState" => d' = d /\ remote' = remote /\ uploaded' = uploaded]_vars

\* GetState returned None without error for a server in a status it has no
\* case for
C10_Witness ==
    /\ Returns("GetState") /\ result = nil
    /\ remote.server.status = "stopping"
    /\ loc.state = "None"

----------------------------------------------------------------------------
(* Properties of the waiting and of the recorded address *)

\* the server record a poll of waitForRunningServer has just read is Running
PolledRunning ==
    remote'.server.id = d.ServerID /\ remote'.server.status = "running"

TimeoutError == <<"server exceeded wait-for-running-timeout">>

\* what one poll of waitForRunningServer may do
WaitPoll ==
    /\ pc' \in {"waitForRunningServer", "configureNetworkAccess", "destroyDangling", "ret"}
    /\ pc' = "configureNetworkAccess" => PolledRunning /\ result' = nil
    /\ pc' = "waitForRunningServer" => ~PolledRunning /\ result' = nil
    /\ pc' \in {"destroyDangling", "ret"}
         => \/ result' \in {<<"could not get state", "server not found">>,
                            <<"could not get state", "could not get server by ID", "transport">>}
            \/ result' = TimeoutError /\ d.WaitForRunningTimeout > 0 /\ ~PolledRunning
    /\ d' = d

\* C11: a poll of waitForRunningServer ends the wait with success exactly
\* when it read Running, aborts with the error of the state query when the
\* query failed, returns the timeout error only with WaitForRunningTimeout
\* > 0 at a poll that did not read Running, and otherwise polls again; with
\* WaitForRunningTimeout 0 the wait is left only by Running or a failed query.
C11_WaitForRunning == [][pc = "waitForRunningServer" => WaitPoll]_vars

\* Create gave up on a server that did not come up within the timeout
C11_Witness ==
    /\ op = "Create" /\ result = TimeoutError
    /\ d.WaitForRunningTimeout > 0
    /\ remote.server.status # "running"

\* the source of the address by the priority of the flags
AddressByPriority(dd) ==
    IF dd.UsePrivateNetwork THEN "private"
    ELSE IF dd.DisablePublic4 THEN "ipv6"
    ELSE "ipv4"

\* C12: the address a successful Create records is that of the private
\* network attachment when private networking is requested (whatever the
\* public-IP flags, and only once the server has an attachment), else the
\* one derived from the public IPv6 network when public IPv4 is disabled,
\* else the public IPv4 address.
C12_AddressPriority ==
    Returns("Create") /\ result = nil
      => /\ d.IPAddress = AddressByPriority(d)
         /\ d.UsePrivateNetwork => remote.server.privateNet

\* private networking wins over a disabled public IPv4
C12_Witness ==
    /\ Returns("Create") /\ result = nil
    /\ d.UsePrivateNetwork /\ d.DisablePublic4
    /\ d.IPAddress = "private"

----------------------------------------------------------------------------
(* Order of Create *)

\* the running method has submitted a server-creation request
Submitted == CallsOf({"Server.Create"}) # {}

\* every remote key is registered and everything the creation request
\* refers to has been resolved
AllResolved ==
    /\ d.KeyID # 0 /\ d.cachedKey.id = d.KeyID
    /\ Len(d.cachedAdditionalKeys) = Len(d.AdditionalKeys)
    /\ d.placementGroup # "" => loc.pgrp # 0
    /\ d.PrimaryIPv4 # "" => d.cachedPrimaryIPv4
    /\ d.PrimaryIPv6 # "" => d.cachedPrimaryIPv6
    /\ d.Location # "" => d.cachedLocation
    /\ d.cachedType /\ d.cachedImage
    /\ loc.srvopts = ServerCreateOpts(d, loc.pgrp)

\* the errors Create returns for what happens after the submission
AfterSubmission ==
    {"could not create server", "could not wait for action", "could not get state",
     "server exceeded wait-for-running-timeout", "could not get newly created server"}

\* C13: Create submits the server-creation request only with every remote
\* key registered and the placement group, primary IPs, networks,
\* firewalls, volumes, location, type, image and primary key resolved; when
\* Create returns the error of a registration or resolution (a network,
\* firewall or volume that does not exist included) it has submitted no
\* server-creation request.
C13_ResolvedBeforeSubmission ==
    /\ pc = "ServerCreate" \/ Submitted => op = "Create" /\ AllResolved
    /\ Returns("Create") /\ result # nil /\ Head(result) \notin AfterSubmission
         => ~Submitted

\* Create gives up on a firewall the provider does not have, after the
\* keys were uploaded and before any server-creation request
C13_Witness ==
    /\ Returns("Create") /\ result = Err("firewall not found")
    /\ uploaded # {}
    /\ ~Submitted

\* ... and a run that did submit
C13_WitnessSubmitted ==
    /\ Returns("Create") /\ Submitted
    /\ d.Firewalls # <<>> /\ d.Volumes # <<>>

----------------------------------------------------------------------------
(* Placement-group resolution *)

PGLookups == {"PlacementGroup.AllWithOpts", "PlacementGroup.Get"}

\* the groups of the provider the configured request designates
Designated(rr) ==
    {g \in rr.pgs : g.autoSpread = (d.placementGroup = autoSpreadPgName)}

\* no group requested: nothing is asked of the provider, nothing resolved
NoGroupNoCall ==
    op \in {"PreCreateCheck", "Create"} /\ d.placementGroup = ""
      => /\ CallsOf(PGLookups \cup {"PlacementGroup.Create"}) = {}
         /\ loc.pgrp = 0 /\ d.cachedPGrp = 0

\* every creation of a group directly follows a lookup of the requested
\* kind that succeeded and found none
CreatedAfterEmptyLookup ==
    \A j \in CallsOf({"PlacementGroup.Create"}) :
        /\ j > 1
        /\ calls[j - 1] = [c |-> PGLookupCall(d), id |-> 0, ok |-> TRUE]

\* a lookup that found a group makes it the result, and none is created
FoundIsUsed ==
    LET ask == calls'[Len(calls')]
    IN  pc = "getPlacementGroup" /\ calls' # calls /\ ask.ok /\ ask.id # 0
          => /\ ask.id \in {g.id : g \in Designated(remote)}
             /\ pc' # "makePlacementGroup"
             /\ remote' = remote
             /\ op = "Create" => loc'.pgrp = ask.id

\* a lookup that found none is followed by a creation, and the group
\* created carries the auto-created label, and the auto-spread label
\* exactly when auto-spread was requested
NoneFoundIsCreated ==
    /\ pc = "getPlacementGroup" /\ calls' # calls /\ calls'[Len(calls')].ok
         /\ calls'[Len(calls')].id = 0
         => pc' = "makePlacementGroup" /\ Designated(remote) = {}
    /\ pc = "makePlacementGroup"
         => /\ calls'[Len(calls')].c = "PlacementGroup.Create"
            /\ \A g \in remote'.pgs \ remote.pgs :
                 /\ g.autoCreated
                 /\ g.autoSpread = (d.placementGroup = autoSpreadPgName)
                 /\ op = "Create" => loc'.pgrp = g.id

\* C14: with no placement group requested getPlacementGroup makes no
\* remote call and resolves to none; with auto-spread or a named group
\* requested the group the lookup found is used and none is created, and
\* when the lookup found none one is created, labelled auto-created, and
\* auto-spread exactly for the auto-spread request; a group is created only
\* directly after a lookup that found none.
C14_PlacementGroupResolution ==
    /\ [](NoGroupNoCall /\ CreatedAfterEmptyLookup)
    /\ [][FoundIsUsed /\ NoneFoundIsCreated]_vars

\* PreCreateCheck made the auto-spread group because the lookup found none
C14_Witness ==
    /\ Returns("PreCreateCheck") /\ result = nil
    /\ d.placementGroup = autoSpreadPgName
    /\ \E j \in CallsOf({"PlacementGroup.Create"}) : calls[j].ok
    /\ \E g \in remote.pgs : g.id = d.cachedPGrp /\ g.autoSpread /\ g.autoCreated

\* a named group the operator made before is used as it is
C14_WitnessFound ==
    /\ Returns("Create") /\ result = nil
    /\ d.placementGroup = NamedPG
    /\ loc.pgrp = ForeignPGID
    /\ CallsOf({"PlacementGroup.Create"}) = {}

----------------------------------------------------------------------------
(* No location configured *)

\* C15: with no location configured neither PreCreateCheck nor Create
\* reports an unknown location, and the creation request carries no
\* location.
C15_NoLocationNoConstraint ==
    d.Location = ""
      => /\ "unknown location" \notin Range(result)
         /\ Submitted => loc.srvopts.Location = ""

\* PreCreateCheck rejects the configuration without a location
C15_Rejected ==
    /\ Returns("PreCreateCheck") /\ d.Location = ""
    /\ result = <<"could not get location", "unknown location", "">>

\* no configuration without a location gets as far as Create
C15_NeverCreated == d.Location = "" => op # "Create"

----------------------------------------------------------------------------
(* The existing key *)

\* the remote key with the configured id, and whether its fingerprint is
\* the MD5 or the SHA256 fingerprint of the local public key
ConfiguredKey == RemoteKeyByID(remote, d.KeyID)
FingerprintMatches ==
    \E format \in FingerprintFormats :
        <<format, ConfiguredKey.fp>>
            \in {FingerprintLegacyMD5(PrimaryPub), FingerprintSHA256(PrimaryPub)}

NoKeyPath ==
    Err("specifying an existing key ID requires the existing key path to be set as well")

\* the failures of the lookup of a key the provider has and of the local
\* public key file
KeyStepFailures ==
    { <<"could not get key", "could not get sshkey by ID">>,
      Err("could not read public key"),
      Err("could not parse authorized key") }

\* what the key step of PreCreateCheck may do
KeyStep ==
    /\ d.IsExistingKey /\ d.originalKey = ""
         => pc' = "ret" /\ result' = NoKeyPath
    /\ d.IsExistingKey /\ d.originalKey # "" /\ ConfiguredKey # NoKey /\ ~FingerprintMatches
         => /\ pc' = "ret"
            /\ result' \in {KeyMismatch(d.KeyID, d.originalKey)} \cup KeyStepFailures
    /\ d.IsExistingKey /\ d.originalKey # "" /\ FingerprintMatches
         => \/ pc' = "PreCreateCheck" /\ result' = nil
            \/ pc' = "ret" /\ result' \in KeyStepFailures
    /\ result' # nil /\ Head(result') = "remote key does not match local key"
         => /\ result' = KeyMismatch(d.KeyID, d.originalKey)
            /\ d.KeyID # 0 /\ d.originalKey # ""
            /\ ConfiguredKey # NoKey /\ ~FingerprintMatches
    /\ pc' = "PreCreateCheck"
         => \/ ~d.IsExistingKey
             \/ /\ d.originalKey # "" /\ ConfiguredKey # NoKey /\ FingerprintMatches
                /\ d'.cachedKey = ConfiguredKey
    /\ remote' = remote /\ uploaded' = uploaded
    /\ \A j \in Len(calls) + 1..Len(calls') : calls'[j].c = "SSHKey.GetByID"

\* PreCreateCheck has sent no key to the provider
NoUploadInCheck ==
    op = "PreCreateCheck"
      => /\ CallsOf({"SSHKey.Create"}) = {}
         /\ \A u \in uploaded : u.kind # "key"
         /\ remote.nextID = FirstNewID + Cardinality(uploaded)

\* C16: PreCreateCheck fails when a key id is configured without a key
\* path, fails when the fingerprint of the remote key is neither the MD5
\* nor the SHA256 fingerprint of the local public key, and reports the
\* mismatch only then, with the key id and the key path in the error; when
\* either fingerprint matches the key step succeeds unless the lookup or
\* the local file fails; PreCreateCheck never uploads a key.
C16_ExistingKeyValidated ==
    /\ [][pc = "setupExistingKey" => KeyStep]_vars
    /\ []NoUploadInCheck

\* the configured remote key is another key than the local one
C16_Witness ==
    /\ Returns("PreCreateCheck")
    /\ result = KeyMismatch(d.KeyID, "id_rsa")
    /\ d.KeyID = ForeignKeyID(OtherPub)
    /\ ConfiguredKey.fp = OtherPub

\* the configured remote key is the local one
C16_WitnessMatch ==
    /\ Returns("PreCreateCheck") /\ result = nil
    /\ d.IsExistingKey /\ FingerprintMatches

----------------------------------------------------------------------------
(* Private networking needs a network *)

\* C17: PreCreateCheck fails when private networking is in effect, set by
\* its own flag or because both public address families are disabled, and
\* no network is configured; so whenever Create waits for the attachment to
\* a private network, the creation request it submitted named a network.
C17_PrivateNeedsNetwork ==
    /\ d.DisablePublic4 /\ d.DisablePublic6 => d.UsePrivateNetwork
    /\ Returns("PreCreateCheck") /\ d.UsePrivateNetwork /\ d.Networks = <<>>
         => result # nil
    /\ pc = "configureNetworkAccess" /\ d.UsePrivateNetwork
         => Submitted /\ Len(loc.srvopts.Networks) >= 1

\* rejected for the missing network alone
C17_WitnessRejected ==
    /\ Returns("PreCreateCheck") /\ result = Err("No private network attached.")
    /\ d.DisablePublic4 /\ d.DisablePublic6 /\ d.Networks = <<>>

\* Create waits for the attachment of the server it asked a network for
C17_Witness ==
    /\ pc = "configureNetworkAccess" /\ d.UsePrivateNetwork
    /\ ~remote.server.privateNet
    /\ loc.srvopts.Networks = <<"net">>

----------------------------------------------------------------------------
(* Properties of the configuration binding, under FlagSpec *)

Given(flag) == loc.opts[flag]

\* binding returned before it came to the network flags
ReturnedEarly ==
    \/ result # nil /\ Head(result) = "unknown architecture"
    \/ result \in {MutuallyExclusive(flagUserDataFile, legacyFlagUserDataFromFile),
                   MutuallyExclusive(flagUserData, flagUserDataFile)}

\* a token and nothing else besides the network flags
OnlyNetworkFlags ==
    /\ Given(flagAPIToken) # ""
    /\ Given(flagImage) = "" /\ Given(flagImageID) = 0 /\ Given(flagImageArch) = ""
    /\ Given(flagUserData) = "" /\ Given(flagUserDataFile) = ""
    /\ ~Given(legacyFlagUserDataFromFile)
    /\ Given(flagPlacementGroup) = "" /\ ~Given(flagAutoSpread)
    /\ Given(flagServerLabel) = <<>> /\ Given(flagKeyLabel) = <<>>

NoPrimaryIP == Given(flagPrimary4) = "" /\ Given(flagPrimary6) = ""

PublicDisabledFailure ==
    <<"must be used if public networking is disabled",
      flagUsePrivateNetwork, flagDisablePublic>>

Asked4 == Given(flagDisablePublic4) \/ Given(legacyFlagDisablePublic4)
Asked6 == Given(flagDisablePublic6) \/ Given(legacyFlagDisablePublic6)

\* C18: binding sets DisablePublic4 to (disable-public-ipv4 or its legacy
\* flag or disable-public), DisablePublic6 likewise and UsePrivateNetwork to
\* (use-private-network or disable-public); the rule on disabled public
\* networking fails exactly for both families disabled without private
\* networking; so with the network flags alone and no primary IP,
\* disable-public is accepted and sets all three, and the disabling of one
\* family, by the new or the legacy flag, is accepted and leaves the other
\* family and private networking off.
C18_NetworkFlags ==
    pc = "bound" =>
      /\ ~ReturnedEarly
           => /\ d.DisablePublic4 = (Asked4 \/ Given(flagDisablePublic))
              /\ d.DisablePublic6 = (Asked6 \/ Given(flagDisablePublic))
              /\ d.UsePrivateNetwork
                   = (Given(flagUsePrivateNetwork) \/ Given(flagDisablePublic))
              /\ d.DisablePublic4 /\ d.DisablePublic6 /\ ~d.UsePrivateNetwork
                   => result # nil
      /\ result = PublicDisabledFailure
           => d.DisablePublic4 /\ d.DisablePublic6 /\ ~d.UsePrivateNetwork
      /\ OnlyNetworkFlags /\ NoPrimaryIP
           => /\ result \in {nil, PublicDisabledFailure}
              /\ result = nil
                   <=> ~(d.DisablePublic4 /\ d.DisablePublic6 /\ ~d.UsePrivateNetwork)
              /\ Given(flagDisablePublic)
                   => /\ result = nil
                      /\ d.DisablePublic4 /\ d.DisablePublic6 /\ d.UsePrivateNetwork
              /\ Asked4 /\ ~Asked6 /\ ~Given(flagDisablePublic) /\ ~Given(flagUsePrivateNetwork)
                   => /\ result = nil
                      /\ d.DisablePublic4 /\ ~d.DisablePublic6 /\ ~d.UsePrivateNetwork
              /\ Asked6 /\ ~Asked4 /\ ~Given(flagDisablePublic) /\ ~Given(flagUsePrivateNetwork)
                   => /\ result = nil
                      /\ d.DisablePublic6 /\ ~d.DisablePublic4 /\ ~d.UsePrivateNetwork

\* the legacy spelling alone disables public IPv4
C18_Witness ==
    /\ pc = "bound" /\ result = nil
    /\ OnlyNetworkFlags /\ NoPrimaryIP
    /\ Given(legacyFlagDisablePublic4) /\ ~Given(flagDisablePublic4)
    /\ ~Given(flagDisablePublic)
    /\ d.DisablePublic4 /\ ~d.DisablePublic6 /\ ~d.UsePrivateNetwork /\ d.usesDfr

\* both families disabled one by one, without private networking
C18_WitnessRejected ==
    /\ pc = "bound" /\ result = PublicDisabledFailure
    /\ Given(flagDisablePublic4) /\ Given(legacyFlagDisablePublic6)
    /\ ~Given(flagDisablePublic)

\* the architecture flag is one setImageArch knows, so that binding comes
\* to the user-data flags
ArchitectureKnown == Given(flagImageArch) \in {""} \cup Architectures

\* C19: binding fails with a mutual-exclusion error when inline user data
\* and a user-data file are both given, and when the legacy from-file flag
\* comes with a user-data file; with one source given, getUserData returns
\* the inline string, or the bytes of the file as they are; with the legacy
\* flag and an inline value only, the inline value becomes the file path
\* and the driver is marked as using a deprecated flag.
C19_UserDataSelection ==
    /\ pc = "bound" /\ ArchitectureKnown
         => /\ Given(legacyFlagUserDataFromFile) /\ Given(flagUserDataFile) # ""
                 => result = MutuallyExclusive(flagUserDataFile, legacyFlagUserDataFromFile)
            /\ ~Given(legacyFlagUserDataFromFile)
                 /\ Given(flagUserData) # "" /\ Given(flagUserDataFile) # ""
                 => result = MutuallyExclusive(flagUserData, flagUserDataFile)
            /\ Given(legacyFlagUserDataFromFile) /\ Given(flagUserDataFile) = ""
                 => /\ d.userDataFile = Given(flagUserData)
                    /\ d.userData = ""
                    /\ d.usesDfr
    /\ pc = "bound" /\ Given(flagUserData) # "" /\ Given(flagUserDataFile) # ""
         => result # nil
    /\ pc = "userData"
         => /\ Given(flagUserData) = "" \/ Given(flagUserDataFile) = ""
            /\ ~Given(legacyFlagUserDataFromFile) /\ Given(flagUserDataFile) = ""
                 => result = nil /\ loc.userData = Given(flagUserData)
            /\ \/ ~Given(legacyFlagUserDataFromFile) /\ Given(flagUserDataFile) # ""
               \/ Given(legacyFlagUserDataFromFile) /\ Given(flagUserData) # ""
                 => IF loc.file.exists
                    THEN result = nil /\ loc.userData = loc.file.bytes
                    ELSE result = Err("open: no such file or directory")

\* the legacy flag makes the inline value the path of the file that is read
C19_Witness ==
    /\ pc = "userData" /\ result = nil
    /\ Given(legacyFlagUserDataFromFile) /\ Given(flagUserData) = "user-data"
    /\ d.userDataFile = "user-data" /\ d.usesDfr
    /\ loc.userData = <<"#", "c", "\n", " ">>

\* inline user data is handed on as it is
C19_WitnessInline ==
    /\ pc = "userData" /\ result = nil
    /\ ~Given(legacyFlagUserDataFromFile)
    /\ loc.userData = "user-data"

ImageFailures ==
    {MutuallyExclusive(flagImage, flagImageID), MutuallyExclusive(flagImageArch, flagImageID)}

\* binding came to verifyImageFlags and passed it
ImageVerified ==
    pc = "bound" /\ ~ReturnedEarly /\ result \notin ImageFailures
    /\ Given(flagAPIToken) # ""
    /\ Given(flagPlacementGroup) = "" /\ ~Given(flagAutoSpread)
    /\ Given(flagServerLabel) = <<>> /\ Given(flagKeyLabel) = <<>>

\* a token and nothing else besides the image flags
OnlyImageFlags ==
    /\ Given(flagAPIToken) # ""
    /\ Given(flagUserData) = "" /\ Given(flagUserDataFile) = ""
    /\ ~Given(legacyFlagUserDataFromFile)
    /\ ~Given(flagUsePrivateNetwork) /\ ~Given(flagDisablePublic)
    /\ ~Asked4 /\ ~Asked6 /\ NoPrimaryIP
    /\ Given(flagPlacementGroup) = "" /\ ~Given(flagAutoSpread)
    /\ Given(flagServerLabel) = <<>> /\ Given(flagKeyLabel) = <<>>

C20_WitnessDefault ==
    /\ pc = "bound" /\ result = nil
    /\ Given(flagImageID) = 0 /\ Given(flagImage) = ""
    /\ d.Image = defaultImage

\* an image id together with another name
C20_WitnessRejected ==
    /\ pc = "bound" /\ result = MutuallyExclusive(flagImage, flagImageID)
    /\ Given(flagImageID) = 7 /\ Given(flagImage) = "debian-12"

----------------------------------------------------------------------------
(* The getters called one after another on one driver instance              *)
(* (src/driver/hetzner_query.go:17-111).  loc keeps the getter called last  *)
(* and the requests it sent, host.ops counts the calls.                     *)

MaxLookups == 3

\* the drivers looked at: every combination of an image ID, an explicit
\* architecture, a location and a configured key
LookupDrivers ==
    {[NewDriver(keyID, "id_rsa", <<>>, "", location, FALSE, <<>>, FALSE, FALSE, "", "", 0, <<>>, <<>>, "")
        EXCEPT !.ImageID = id, !.ImageArch = arch] :
        keyID \in KeyIDChoices \ {0}, location \in LocationChoices,
        id \in ImageIDChoices, arch \in {"", "arm"}}

LookupInit ==
    /\ d \in LookupDrivers
    /\ \E preKeys \in SUBSET PubKeys : remote = Remote(preKeys, {})
    /\ pc = "lookup"
    /\ op = ""
    /\ loc = [getter |-> "", reqs |-> <<>>]
    /\ result = nil
    /\ calls = <<>>
    /\ uploaded = {}
    /\ host = [phase |-> "new", ops |-> 0]

\* the getter g has returned the outcome o
Looked(g, o) ==
    /\ d' = o.d
    /\ result' = o.err
    /\ loc' = [getter |-> g, reqs |-> o.reqs]
    /\ calls' = Sent(o.reqs)
    /\ host' = [host EXCEPT !.ops = @ + 1]
    /\ UNCHANGED <<remote, pc, op, uploaded>>

GetType ==
    /\ pc = "lookup" /\ host.ops < MaxLookups
    /\ \E o \in getType(d) : Looked("type", o)

LookupImage ==
    /\ pc = "lookup" /\ host.ops < MaxLookups
    /\ \E o \in getImage(d) : Looked("image", o)

GetLocation ==
    /\ pc = "lookup" /\ host.ops < MaxLookups
    /\ \E o \in getLocation(d) : Looked("location", o)

GetKey ==
    /\ pc = "lookup" /\ host.ops < MaxLookups
    /\ \E o \in getKey(d, remote) : Looked("key", o)

LookupNext == GetType \/ LookupImage \/ GetLocation \/ GetKey

LookupSpec == LookupInit /\ [][LookupNext]_vars

----------------------------------------------------------------------------
(* waitForAction on its own (src/driver/hetzner_query.go:160-182): the      *)
(* provider moves the action while the method polls it.  A poll reads the   *)
(* status the action has; calls keeps the first MaxPolls polls.             *)

MaxPolls == 2

WaitMethods == PowerMethods \cup {"Create", "Remove"}

\* the request of the method m that started the awaited action
ActionCommand(m) ==
    IF m = "Create" THEN "create_server"
    ELSE IF m = "Remove" THEN "delete_server" ELSE PowerCall(m)

\* machines with a configured key and no placement group: Create has
\* nothing to roll back
WaitDrivers ==
    {drv \in {NewDriver(ForeignKeyID(PrimaryPub), "id_rsa", <<>>, "", "fsn1", up, nw, FALSE, FALSE, "", "", t, <<>>, <<>>, "") :
                up \in BOOLEAN, nw \in NetworksChoices, t \in WaitForRunningTimeoutChoices} :
        drv.UsePrivateNetwork => drv.Networks # <<>>}

\* the driver when Server.Create has answered: everything is resolved
Resolved(drv) ==
    [drv EXCEPT !.cachedKey = [id |-> drv.KeyID, fp |-> PrimaryPub],
                !.cachedType = TRUE, !.cachedImage = TRUE, !.cachedLocation = TRUE]

\* the provider with the server of the machine and the action of m running
Awaiting(m) ==
    [Remote({PrimaryPub}, {}) EXCEPT
        !.server = IF m = "Remove" THEN NoServer
                   ELSE [id |-> FirstNewID,
                         status |-> IF m = "Create" THEN "initializing" ELSE "running",
                         pg |-> 0, privateNet |-> FALSE],
        !.action = [cmd |-> ActionCommand(m), status |-> "running"],
        !.nextID = FirstNewID + 1]

WaitInit ==
    /\ \E m \in WaitMethods, drv \in WaitDrivers :
         /\ op = m
         /\ remote = Awaiting(m)
         /\ d = IF m = "Create" THEN Resolved(drv)
                ELSE [Resolved(drv) EXCEPT
                        !.ServerID = FirstNewID,
                        !.cachedServer = [id |-> FirstNewID, pg |-> NoPG],
                        !.IPAddress = IF drv.UsePrivateNetwork THEN "private" ELSE "ipv4"]
         /\ loc = IF m = "Create" THEN [NoLoc EXCEPT !.srv = FirstNewID] ELSE NoLoc
         /\ host = [phase |-> IF m = "Create" THEN "checked" ELSE "created", ops |-> 0]
    /\ pc = "waitForAction"
    /\ result = nil
    /\ calls = <<>>
    /\ uploaded = {}

\* the provider finishes the action
ActionAdvances ==
    /\ pc = "waitForAction"
    /\ remote.action.status = "running"
    /\ \E s \in {"success", "error"} : remote' = [remote EXCEPT !.action.status = s]
    /\ UNCHANGED <<d, pc, op, loc, result, calls, uploaded, host>>

\* Variant of the round that goes on polling an action that has failed
PollPastError(answer) ==
    /\ pc = "waitForAction"
    /\ UNCHANGED <<remote, op, uploaded, host>>
    /\ calls' = IF Len(calls) < MaxPolls
                THEN Log("Action.GetByID", 0, answer # "error") ELSE calls
    /\ IF answer = "error" THEN ActionAwaited(Err("could not get client by ID"))
       ELSE IF answer = "absent" THEN ActionAwaited(Err("action not found"))
       ELSE IF remote.action.status = "success" THEN ActionAwaited(nil)
       ELSE UNCHANGED <<d, pc, loc, result>>

\* one round of the loop of waitForAction with the given answer of
\* Action.GetByID
Poll(answer) ==
    /\ pc = "waitForAction"
    /\ UNCHANGED <<remote, op, uploaded, host>>
    /\ calls' = IF Len(calls) < MaxPolls
                THEN Log("Action.GetByID", 0, answer # "error") ELSE calls
    /\ IF answer = "error" THEN ActionAwaited(Err("could not get client by ID"))
       ELSE IF answer = "absent" THEN ActionAwaited(Err("action not found"))
       ELSE IF remote.action.status = "success" THEN ActionAwaited(nil)
       ELSE IF remote.action.status = "error" THEN ActionAwaited(Err("action failed"))
       ELSE UNCHANGED <<d, pc, loc, result>>

waitForActionPoll == \E answer \in {"error", "absent", "action"} : Poll(answer)

WaitNext == ActionAdvances \/ waitForActionPoll

\* the loop goes on as long as the client answers: a poll that finds the
\* action is eventually made.  Nothing obliges the provider to finish.
WaitSpec == WaitInit /\ [][WaitNext]_vars /\ WF_vars(Poll("action"))

----------------------------------------------------------------------------
(* The public-IPv6 branch of configureNetworkAccess on its own              *)
(* (src/driver/placement_groups.go:487-498).  An address is its last two    *)
(* bytes as a number below 2^16; the fourteen bytes before them belong to   *)
(* the network prefix and are the same in the address and in the network.   *)

MaxLastByte == 31

\* the addresses examined: the byte before the last one, and the last byte
TailAddresses == {hi * 256 + lo : hi \in {0, 1}, lo \in 0..MaxLastByte}

\* the number of host bits of the prefixes /112, /120 and /128
HostBitChoices == {16, 8, 0}

\* ip.Mask(mask): the host bits cleared
Mask(ip, hostBits) == ip - (ip % (2 ^ hostBits))

\* ip[net.IPv6len-1] |= 0x01
OrLowBit(ip) == IF ip % 2 = 0 THEN ip + 1 ELSE ip

\* the IP and Network that net.ParseCIDR makes of the provider's value
ParseCIDR(ip, hostBits) ==
    [IP |-> ip, Network |-> [IP |-> Mask(ip, hostBits), hostBits |-> hostBits]]

\* the address the branch records (placement_groups.go:490-497)
PublicIPv6(pv6) ==
    IF Mask(pv6.IP, pv6.Network.hostBits) = pv6.Network.IP
    THEN ToString(OrLowBit(pv6.IP))
    ELSE ToString(pv6.IP)

AddressInit ==
    /\ d \in {drv \in Drivers : drv.DisablePublic4 /\ ~drv.UsePrivateNetwork}
    /\ \E ip \in TailAddresses, hostBits \in HostBitChoices :
         loc = [pv6 |-> ParseCIDR(ip, hostBits)]
    /\ pc = "configureNetworkAccess"
    /\ op = "Create"
    /\ result = nil
    /\ remote = Remote({}, {})
    /\ calls = <<>>
    /\ uploaded = {}
    /\ host = [phase |-> "checked", ops |-> 0]

\* configureNetworkAccess without a private network and without public
\* IPv4
RecordPublicIPv6 ==
    /\ pc = "configureNetworkAccess"
    /\ ~d.UsePrivateNetwork /\ d.DisablePublic4
    /\ d' = [d EXCEPT !.IPAddress = PublicIPv6(loc.pv6)]
    /\ pc' = "ret"
    /\ UNCHANGED <<remote, op, loc, result, calls, uploaded, host>>

AddressNext == RecordPublicIPv6

AddressSpec == AddressInit /\ [][AddressNext]_vars

----------------------------------------------------------------------------
(* Two driver instances of one project (two docker-machine processes)       *)
(* resolving their placement group and creating their server.  Every        *)
(* variable but remote is a function of the instance; remote is the         *)
(* project both talk to.  The machines use a configured key, so that        *)
(* createRemoteKeys sends nothing, and the three waits of Create are one    *)
(* step.                                                                    *)

Instances == {1, 2}

PairDriver(pg) ==
    [placementGroup |-> pg, cachedPGrp |-> 0, dangling |-> <<>>, ServerID |-> 0]

PairInit ==
    /\ d \in [Instances -> {PairDriver(pg) : pg \in {autoSpreadPgName, NamedPG}}]
    /\ \E prePGs \in {{}} \cup {{g} : g \in ForeignPGs}, spread \in BOOLEAN :
         remote = [pgs |-> {[g EXCEPT !.autoSpread = spread] : g \in prePGs},
                   servers |-> {},
                   nextID |-> FirstNewID]
    /\ pc = [i \in Instances |-> "idle"]
    /\ op = [i \in Instances |-> ""]
    /\ loc = [i \in Instances |-> [pgrp |-> 0]]
    /\ result = [i \in Instances |-> nil]
    /\ calls = [i \in Instances |-> <<>>]
    /\ uploaded = {}
    /\ host = [i \in Instances |-> "new"]

\* instance i returns err to its host
PairReturn(i, err) ==
    /\ pc' = [pc EXCEPT ![i] = "ret"]
    /\ result' = [result EXCEPT ![i] = err]

\* Create of instance i leaves through its deferred destroyDangling
\* (part_005:458)
PairDeferred(i, dd, err) ==
    /\ result' = [result EXCEPT ![i] = err]
    /\ pc' = [pc EXCEPT ![i] = IF dd.dangling = <<>> THEN "ret" ELSE "destroyDangling"]

\* getPlacementGroup of instance i returned grp, err to its caller
PairResolved(i, dd, grp, err) ==
    IF op[i] = "PreCreateCheck"
    THEN /\ loc' = loc
         /\ PairReturn(i, IF err # nil THEN Wrap(err, "could not create placement group")
                          ELSE nil)
    ELSE IF err # nil THEN loc' = loc /\ PairDeferred(i, dd, err)
         ELSE /\ loc' = [loc EXCEPT ![i].pgrp = grp]
              /\ pc' = [pc EXCEPT ![i] = "ServerCreate"]
              /\ result' = result

\* libmachine of instance i runs PreCreateCheck, then Create
\* (part_005:413-463); the steps before the placement group can fail
PairHostCall(i) ==
    /\ pc[i] = "idle" /\ host[i] \in {"new", "checked"}
    /\ UNCHANGED <<d, remote, loc, uploaded, host>>
    /\ op' = [op EXCEPT ![i] = IF host[i] = "new" THEN "PreCreateCheck" ELSE "Create"]
    /\ calls' = [calls EXCEPT ![i] = <<>>]
    /\ \E ready \in BOOLEAN :
         IF ready
         THEN pc' = [pc EXCEPT ![i] = "getPlacementGroup"] /\ result' = result
         ELSE PairReturn(i, IF host[i] = "new" THEN Err("could not get type")
                            ELSE Err("could not copy ssh key pair"))

\* getPlacementGroup of instance i up to the answer of its lookup
\* (placement_groups.go:16-28 and 60-81)
PairGetPlacementGroup(i) ==
    /\ pc[i] = "getPlacementGroup"
    /\ UNCHANGED <<remote, op, uploaded, host>>
    /\ IF d[i].cachedPGrp # 0
       THEN d' = d /\ calls' = calls /\ PairResolved(i, d[i], d[i].cachedPGrp, nil)
       ELSE \E found \in {"error", "answer"} :
              IF found = "error"
              THEN /\ d' = d
                   /\ calls' = [calls EXCEPT ![i] = Append(@,
                                   [c |-> PGLookupCall(d[i]), id |-> 0, ok |-> FALSE])]
                   /\ PairResolved(i, d[i], 0,
                        IF d[i].placementGroup = autoSpreadPgName
                        THEN Err("placement group list failed")
                        ELSE Err("could not get placement group"))
              ELSE IF MatchingPGs(d[i], remote) = {}
              THEN /\ d' = d /\ loc' = loc /\ result' = result
                   /\ calls' = [calls EXCEPT ![i] = Append(@,
                                   [c |-> PGLookupCall(d[i]), id |-> 0, ok |-> TRUE])]
                   /\ pc' = [pc EXCEPT ![i] = "makePlacementGroup"]
              ELSE \E g \in MatchingPGs(d[i], remote) :
                     /\ d' = IF d[i].placementGroup = autoSpreadPgName
                             THEN [d EXCEPT ![i].cachedPGrp = g.id] ELSE d
                     /\ calls' = [calls EXCEPT ![i] = Append(@,
                                     [c |-> PGLookupCall(d[i]), id |-> g.id, ok |-> TRUE])]
                     /\ PairResolved(i, d'[i], g.id, nil)

\* makePlacementGroup of instance i (placement_groups.go:37-58, with the
\* caching of line 70).  The provider accepts or rejects the request
PairMakePlacementGroup(i) ==
    /\ pc[i] = "makePlacementGroup"
    /\ UNCHANGED <<op, host>>
    /\ \E created \in BOOLEAN :
         IF ~created
         THEN /\ UNCHANGED <<d, remote, uploaded>>
              /\ calls' = [calls EXCEPT ![i] = Append(@,
                              [c |-> "PlacementGroup.Create", id |-> 0, ok |-> FALSE])]
              /\ PairResolved(i, d[i], 0, Err("could not create placement group"))
         ELSE LET id == remote.nextID
                  grp == [id |-> id,
                          autoSpread |-> (d[i].placementGroup = autoSpreadPgName),
                          autoCreated |-> TRUE,
                          servers |-> 0]
              IN  /\ remote' = [remote EXCEPT !.pgs = @ \cup {grp}, !.nextID = @ + 1]
                  /\ uploaded' = uploaded \cup {[kind |-> "pg", id |-> id]}
                  /\ calls' = [calls EXCEPT ![i] = Append(@,
                                  [c |-> "PlacementGroup.Create", id |-> id, ok |-> TRUE])]
                  /\ d' = [d EXCEPT
                            ![i].dangling = Append(@, [kind |-> "pg", id |-> id]),
                            ![i].cachedPGrp = IF d[i].placementGroup = autoSpreadPgName
                                              THEN id ELSE @]
                  /\ PairResolved(i, d'[i], id, nil)

\* the Server.Create request of instance i (part_005:471-475); the provider
\* rejects a placement group that does not exist
PairServerCreate(i) ==
    /\ pc[i] = "ServerCreate"
    /\ UNCHANGED <<d, op, loc, uploaded, host>>
    /\ \E accepted \in
            IF \E g \in remote.pgs : g.id = loc[i].pgrp THEN BOOLEAN ELSE {FALSE} :
         IF ~accepted
         THEN /\ remote' = remote
              /\ calls' = [calls EXCEPT ![i] = Append(@,
                              [c |-> "Server.Create", id |-> 0, ok |-> FALSE])]
              /\ PairDeferred(i, d[i],
                    Wrap(Err("server create failed"), "could not create server"))
         ELSE LET id == remote.nextID
              IN  /\ remote' = [remote EXCEPT
                        !.servers = @ \cup {[id |-> id, pg |-> loc[i].pgrp, by |-> i]},
                        !.pgs = {IF g.id = loc[i].pgrp
                                 THEN [g EXCEPT !.servers = @ + 1] ELSE g : g \in @},
                        !.nextID = @ + 1]
                  /\ calls' = [calls EXCEPT ![i] = Append(@,
                                  [c |-> "Server.Create", id |-> id, ok |-> TRUE])]
                  /\ pc' = [pc EXCEPT ![i] = "waitForAction"]
                  /\ result' = result

\* the waits of Create (part_005:477-499) as one step: they fail, or they
\* succeed and Create clears its dangling list
PairAwait(i) ==
    /\ pc[i] = "waitForAction"
    /\ UNCHANGED <<remote, op, loc, calls, uploaded, host>>
    /\ \E done \in BOOLEAN :
         IF done
         THEN /\ d' = [d EXCEPT ![i].dangling = <<>>,
                                ![i].ServerID = CHOOSE id \in {srv.id : srv \in
                                       {x \in remote.servers : x.by = i}} : TRUE]
              /\ PairReturn(i, nil)
         ELSE /\ d' = d
              /\ PairDeferred(i, d[i], Wrap(Err("action failed"), "could not wait for action"))

\* destroyDangling of instance i (cleanup.go:11-15): every registered
\* destructor runs
PairDestroyDangling(i) ==
    /\ pc[i] = "destroyDangling"
    /\ UNCHANGED <<d, op, loc, result, uploaded, host>>
    /\ LET res == d[i].dangling[1]
       IN  \E ok \in DeleteOutcomes(Exists(remote, res)) :
             /\ remote' = IF ok THEN Deleted(remote, res) ELSE remote
             /\ calls' = [calls EXCEPT ![i] = Append(@,
                             [c |-> DeleteCall(res), id |-> res.id, ok |-> ok])]
    /\ pc' = [pc EXCEPT ![i] = "ret"]

\* the method of instance i has returned
PairHostReturn(i) ==
    /\ pc[i] = "ret"
    /\ UNCHANGED <<d, remote, loc, uploaded, calls>>
    /\ host' = [host EXCEPT ![i] =
                  IF op[i] = "PreCreateCheck"
                  THEN IF result[i] = nil THEN "checked" ELSE "rejected"
                  ELSE IF result[i] = nil THEN "created" ELSE "failed"]
    /\ pc' = [pc EXCEPT ![i] = "idle"]
    /\ op' = [op EXCEPT ![i] = ""]
    /\ result' = [result EXCEPT ![i] = nil]

PairNext ==
    \E i \in Instances :
        \/ PairHostCall(i) \/ PairHostReturn(i)
        \/ PairGetPlacementGroup(i) \/ PairMakePlacementGroup(i)
        \/ PairServerCreate(i) \/ PairAwait(i) \/ PairDestroyDangling(i)

PairSpec == PairInit /\ [][PairNext]_vars

----------------------------------------------------------------------------
(* PreCreateCheck and Create of one machine under a provider that answers   *)
(* and makes progress.  The machine uploads its key; it may use the         *)
(* auto-spread placement group, a private network and a running timeout.    *)

CreateDrivers ==
    {drv \in {NewDriver(0, "", <<>>, pg, "fsn1", up, nw, FALSE, FALSE, "", "", t, <<>>, <<>>, "") :
                pg \in {"", autoSpreadPgName},
                up \in BOOLEAN, nw \in NetworksChoices,
                t \in WaitForRunningTimeoutChoices} :
        drv.UsePrivateNetwork = (drv.Networks # <<>>)}

CreateInit ==
    /\ d \in CreateDrivers
    /\ remote = Remote({}, {})
    /\ pc = "idle"
    /\ op = ""
    /\ loc = NoLoc
    /\ result = nil
    /\ calls = <<>>
    /\ uploaded = {}
    /\ host = [phase |-> "new", ops |-> 0]

\* libmachine runs PreCreateCheck, then Create
CreateHostCall == HostCall /\ op' \in {"PreCreateCheck", "Create"}

CreateNext ==
    \/ CreateHostCall \/ HostReturn
    \/ setupExistingKey \/ PreCreateCheck \/ getPlacementGroup \/ makePlacementGroup
    \/ PreCreateCheckPrimaryIPs
    \/ Create \/ createRemoteKeys \/ makeCreateServerOptions \/ ServerCreate
    \/ waitForAction \/ waitForRunningServer \/ configureNetworkAccess
    \/ destroyDangling

\* every call of the driver returns and the driver goes on
CallsReturn == WF_vars(CreateNext)

\* the creation action reaches a terminal status, the server reports
\* running or the timeout elapses, the private network attaches: each of
\* the three polling loops sees an answer that ends it
RemoteProgress ==
    /\ WF_vars(waitForAction /\ pc' # pc)
    /\ WF_vars(waitForRunningServer /\ pc' # pc)
    /\ WF_vars(configureNetworkAccess /\ pc' # pc)

\* the calls return, the provider may stay where it is
CreateCallsSpec == CreateInit /\ [][CreateNext]_vars /\ CallsReturn

CreateSpec == CreateInit /\ [][CreateNext]_vars /\ CallsReturn /\ RemoteProgress

----------------------------------------------------------------------------
(* C21: architecture of the image lookup *)

\* the options were accepted
Accepted == pc = "bound" /\ result = nil

TypeRequest(ok) == Req("ServerType.GetByName", <<d.Type>>, ok)

\* the by-name image lookup with the architecture arch was sent, whatever
\* the transport made of it
ImageRequests(arch) ==
    {Req("Image.GetByNameAndArchitecture", <<d.Image, arch>>, ok) : ok \in BOOLEAN}

\* the server type could not be resolved
TypeUnresolved ==
    /\ result # nil
    /\ Head(result) = "could not determine image architecture"

\* getImage has returned on a driver that had an image ID
LookedUpByID ==
    /\ Len(loc.reqs) = 1
    /\ loc.reqs[1].c = "Image.GetByID"

\* getImage has returned on a driver with an explicit architecture
LookedUpExplicit ==
    /\ Len(loc.reqs) = 1
    /\ loc.reqs[1] \in ImageRequests(d.ImageArch)

\* getImage has returned on a driver without an explicit architecture
LookedUpByType ==
    IF TypeUnresolved
    THEN /\ Len(loc.reqs) = 1
         /\ loc.reqs[1].c = "ServerType.GetByName"
    ELSE /\ loc.reqs = <<TypeRequest(TRUE), loc.reqs[2]>>
         /\ loc.reqs[2] \in ImageRequests(Architecture(d.Type))

\* C21: without --hetzner-image-arch the bound ImageArch is empty and the
\* by-name lookup asks for the server type first and uses its architecture,
\* sending no image lookup when the type cannot be resolved; an explicit
\* arm or x86 is stored unchanged and used without asking for the type; any
\* other architecture fails binding; a lookup by image ID never asks for
\* the server type.
C21_ImageArchitecture ==
    /\ pc # "SetConfigFromFlags" /\ loc.opts[flagImageArch] \notin Architectures \cup {""}
         => result = <<"unknown architecture", loc.opts[flagImageArch]>>
    /\ Accepted => d.ImageArch = loc.opts[flagImageArch]
    /\ pc = "image"
         => /\ d.ImageArch = loc.opts[flagImageArch]
            /\ IF d.ImageID # 0 THEN LookedUpByID
               ELSE IF d.ImageArch # "" THEN LookedUpExplicit
               ELSE LookedUpByType

\* an explicit arm overrides the x86 of the server type
C21_Witness ==
    /\ pc = "image" /\ result = nil
    /\ loc.opts[flagImageArch] = "arm" /\ Architecture(d.Type) = "x86"
    /\ loc.reqs = <<Req("Image.GetByNameAndArchitecture", <<d.Image, "arm">>, TRUE)>>

\* no architecture given and the server type unresolved: no image lookup
C21_WitnessUnresolved ==
    /\ pc = "image" /\ TypeUnresolved
    /\ loc.opts[flagImageArch] = "" /\ d.ImageID = 0
    /\ loc.reqs = <<TypeRequest(TRUE)>>

\* no architecture given: the lookup uses the architecture of the type
C21_WitnessByType ==
    /\ pc = "image" /\ result = nil
    /\ d.ImageArch = "" /\ d.ImageID = 0
    /\ loc.reqs = <<TypeRequest(TRUE), Req("Image.GetByNameAndArchitecture", <<d.Image, "x86">>, TRUE)>>

----------------------------------------------------------------------------
(* C22: the server ID and the creation action *)

\* Server.Create has answered with the server loc.srv
CreationAnswered == op = "Create" /\ loc.srv # 0

\* Create is on its way out with an error
CreateFailing == pc \in {"destroyDangling", "ret"} /\ result # nil

\* C22: once Server.Create has answered, ServerID is the ID of the created
\* server whenever the creation action is awaited and whenever Create fails
\* afterwards.
C22_ServerIDBeforeWait ==
    CreationAnswered /\ (pc = "waitForAction" \/ CreateFailing)
        => d.ServerID = loc.srv

\* Create returns "could not wait for action" while the created server
\* exists and no server ID is recorded
C22_Unrecorded ==
    /\ Returns("Create") /\ CreationAnswered
    /\ Head(result) = "could not wait for action"
    /\ remote.server.id = loc.srv
    /\ d.ServerID = 0

----------------------------------------------------------------------------
(* C23: what gets a compensating deletion *)

\* the keys and placement groups the step has added at the provider
NewResources ==
    {[kind |-> "key", id |-> id] :
        id \in {k.id : k \in remote'.keys} \ {k.id : k \in remote.keys}}
    \cup
    {[kind |-> "pg", id |-> id] :
        id \in {g.id : g \in remote'.pgs} \ {g.id : g \in remote.pgs}}

\* C23: a step that creates a key or a placement group appends exactly its
\* deletion to the dangling list, and no other step lets the list grow: a
\* key or group that was found gets no deletion.
C23_RegisteredIffCreated ==
    [][ /\ \A r \in NewResources : d'.dangling = Append(d.dangling, r)
        /\ NewResources = {} => d'.dangling \in {d.dangling, <<>>} ]_vars

\* the machine's key was found by its fingerprint and an additional key was
\* uploaded: only the uploaded one has a deletion
C23_Witness ==
    /\ op = "Create" /\ pc = "getPlacementGroup"
    /\ d.IsExistingKey /\ d.cachedKey = NoKey
    /\ Len(d.cachedAdditionalKeys) = 1
    /\ d.dangling = <<[kind |-> "key", id |-> d.cachedAdditionalKeys[1]]>>

\* a placement group found by its name has no deletion, in the check and in
\* Create
C23_WitnessFound ==
    /\ op = "Create" /\ pc = "makeCreateServerOptions"
    /\ loc.pgrp # 0 /\ d.placementGroup # autoSpreadPgName
    /\ d.dangling = <<>>

----------------------------------------------------------------------------
(* C24: placement-group cleanup and the deletion action *)

\* the step sends the request c
Sends(c) ==
    /\ Len(calls') = Len(calls) + 1
    /\ calls'[Len(calls')].c = c

\* C24: Remove sends the deletion of the server's placement group only
\* when the deletion action of the server has been awaited to its success.
C24_CleanupAfterAwait ==
    [][ op = "Remove" /\ Sends("PlacementGroup.Delete")
          => remote.action = [cmd |-> "delete_server", status |-> "success"] ]_vars

\* the group's deletion was sent and the deletion of the server is still
\* pending: Remove has yet to poll the action
C24_CleanupWhilePending ==
    /\ op = "Remove" /\ pc = "waitForAction"
    /\ calls[Len(calls)].c = "PlacementGroup.Delete"
    /\ calls[Len(calls) - 1] = [c |-> "Server.Delete", id |-> d.cachedServer.id, ok |-> TRUE]
    /\ remote.action = [cmd |-> "delete_server", status |-> "running"]

----------------------------------------------------------------------------
(* C25: failure of the local key preparation *)

\* Create has returned the failure of prepareLocalKey
LocalKeyFailed ==
    /\ Returns("Create")
    /\ result \in {Err("could not copy ssh key pair"), Err("could not generate ssh key")}

\* the resources this instance has created and the provider still has
LeftBehind == {u \in uploaded : Exists(remote, u)}

\* C25: when the local key preparation fails Create returns without a
\* rollback request, and nothing this instance has created exists at the
\* provider, nothing of the preceding PreCreateCheck either.
C25_NothingLeftBehind ==
    LocalKeyFailed => calls = <<>> /\ LeftBehind = {}

\* Create has returned the failure of prepareLocalKey without a request,
\* and the placement group PreCreateCheck created is registered for
\* deletion and still exists
C25_GroupLeftBehind ==
    /\ LocalKeyFailed /\ calls = <<>>
    /\ Len(d.dangling) = 1 /\ d.dangling[1].kind = "pg"
    /\ LeftBehind = {d.dangling[1]}

----------------------------------------------------------------------------
(* C26: memoization of the placement group *)

\* the placement-group requests of the running method
PGRequests == CallsOf(PGLookups \cup {"PlacementGroup.Create"})

\* C26: Create runs after a PreCreateCheck that resolved the placement
\* group, so with a group configured, auto-spread or named, it sends no
\* placement-group lookup and no creation.
C26_PlacementGroupMemoized ==
    op = "Create" /\ d.placementGroup # "" => PGRequests = {}

\* the auto-spread group is cached: Create sends no request for it
C26_AutoSpreadMemoized ==
    op = "Create" /\ d.placementGroup = autoSpreadPgName
      => PGRequests = {} /\ d.cachedPGrp # 0

\* Create looks the named group up again, which PreCreateCheck had resolved
\* and not cached
C26_NamedLookedUpAgain ==
    /\ op = "Create" /\ pc = "makeCreateServerOptions"
    /\ d.placementGroup = NamedPG /\ d.cachedPGrp = 0
    /\ calls[Len(calls)] = [c |-> "PlacementGroup.Get", id |-> loc.pgrp, ok |-> TRUE]

----------------------------------------------------------------------------
(* C27: the caches are written once *)

\* the requests the step has sent
NewRequests == {calls'[j].c : j \in Len(calls) + 1..Len(calls')}

\* the lookups a getter sends, by the cache it fills
LookupsOf ==
    [ cachedType |-> {"ServerType.GetByName"},
      cachedImage |-> {"Image.GetByID", "Image.GetByNameAndArchitecture"},
      cachedLocation |-> {"Location.GetByName"},
      cachedKey |-> {"SSHKey.GetByID"},
      cachedPrimaryIPv4 |-> {"PrimaryIP.Get"},
      cachedPrimaryIPv6 |-> {"PrimaryIP.Get"},
      cachedServer |-> {"Server.GetByID"} ]

\* the value of a cache that holds nothing
EmptyCache(f) ==
    IF f = "cachedKey" THEN NoKey ELSE IF f = "cachedServer" THEN NoHandle ELSE FALSE

\* the cache f holds a value that answers its getter: an address that is
\* not configured is answered without one
Answered(f) ==
    \/ d[f] # EmptyCache(f)
    \/ f = "cachedPrimaryIPv4" /\ d.PrimaryIPv4 = ""
    \/ f = "cachedPrimaryIPv6" /\ d.PrimaryIPv6 = ""

\* GetState asks for the server by its ID itself, past the getter of the
\* handle (part_005:522-529)
CallsGetState == pc \in {"GetState", "waitForRunningServer"}

\* a step of a method that has a cached value for every getter sending c
\* sends no c
NoRefetch ==
    \A c \in UNION {LookupsOf[f] : f \in DOMAIN LookupsOf} :
        /\ \A f \in DOMAIN LookupsOf : c \in LookupsOf[f] => Answered(f)
        /\ ~(c = "Server.GetByID" /\ CallsGetState)
        => c \notin NewRequests

C27_WitnessRemove ==
    /\ Returns("Remove") /\ result = nil
    /\ d.cachedKey # NoKey /\ d.cachedServer # NoHandle
    /\ CallsOf({"SSHKey.Delete"}) # {}
    /\ CallsOf(LookupsOf.cachedKey) = {}

----------------------------------------------------------------------------
(* C28: absent answers and transport errors of the getters *)

\* the cache the getter g fills
CacheOf(g) ==
    CASE g = "type" -> "cachedType"
      [] g = "image" -> "cachedImage"
      [] g = "location" -> "cachedLocation"
      [] g = "key" -> "cachedKey"

\* the not-found failures of the getter g on the driver d, each naming the
\* reference that was looked up
NotFound(g) ==
    CASE g = "type" -> {<<"unknown server type", d.Type>>}
      [] g = "image" -> {<<"image id not found", ToString(d.ImageID)>>}
                        \cup {<<"image not found", d.Image, a>> : a \in Architectures}
      [] g = "location" -> {<<"unknown location", d.Location>>}
      [] g = "key" -> {<<"key not found", ToString(d.KeyID)>>}

\* the failures the getter g wraps a transport error in
TransportFailure(g) ==
    CASE g = "type" -> {Err("could not get type by name")}
      [] g = "image" -> {Err("could not get image by id"), Err("could not get image by name")}
      [] g = "location" -> {Err("could not get location by name")}
      [] g = "key" -> {Err("could not get sshkey by ID")}

\* getImage could not ask for the image: the server type, which it needed
\* for the architecture, failed in one of the two ways
ArchitectureFailure ==
    {Wrap(e, "could not determine image architecture") :
        e \in NotFound("type") \cup TransportFailure("type")}

\* the last request of the call went through the transport
Answer == loc'.reqs # <<>> /\ loc'.reqs[Len(loc'.reqs)].ok

\* the call of a getter with an empty cache
LookupStep(g) ==
    /\ loc'.getter = g /\ host'.ops = host.ops + 1
    /\ d[CacheOf(g)] = EmptyCache(CacheOf(g))

\* what a call of the getter g with an empty cache does
LookupOutcome(g) ==
    /\ g = "location" /\ d.Location = "" => result' \in NotFound(g)
    /\ ~(g = "location" /\ d.Location = "") => loc'.reqs # <<>>
    /\ result' # nil
         => /\ d'[CacheOf(g)] = EmptyCache(CacheOf(g))
            /\ IF g = "image" /\ loc'.reqs[Len(loc'.reqs)].c = "ServerType.GetByName"
               THEN result' \in ArchitectureFailure
               ELSE IF Answer \/ loc'.reqs = <<>> THEN result' \in NotFound(g)
               ELSE result' \in TransportFailure(g)
    /\ result' = nil => Answer /\ d'[CacheOf(g)] # EmptyCache(CacheOf(g))

\* C28: a getter of the type, the image, the location or the key whose
\* client answers without a transport error and without an entity fails
\* with the not-found error that names the reference, a transport error
\* gives the getter's other, wrapping failure, and either way the cache
\* stays empty, so the next call asks the provider again.
C28_AbsentAndTransport ==
    [][ \A g \in {"type", "image", "location", "key"} :
            LookupStep(g) => LookupOutcome(g) ]_vars

\* the key was absent at the first call and the second call has asked again
C28_Witness ==
    /\ pc = "lookup" /\ host.ops = 2
    /\ loc.getter = "key"
    /\ result = <<"key not found", ToString(d.KeyID)>>
    /\ d.cachedKey = NoKey
    /\ Len(calls) = 2
    /\ \A j \in 1..2 : calls[j] = [c |-> "SSHKey.GetByID", id |-> 0, ok |-> TRUE]

\* a transport error of the location lookup
C28_WitnessTransport ==
    /\ pc = "lookup" /\ loc.getter = "location"
    /\ result = Err("could not get location by name")
    /\ ~d.cachedLocation
    /\ loc.reqs = <<Req("Location.GetByName", <<d.Location>>, FALSE)>>

----------------------------------------------------------------------------
(* C29: the order of the rollback *)

IsDelete(call) == call.c \in {"SSHKey.Delete", "PlacementGroup.Delete"}

\* the deletions the running method has sent, in the order it sent them
DeletesSent == SelectSeq(calls, IsDelete)

\* Create is in its rollback or has returned from it
RollingBack ==
    /\ op = "Create" /\ result # nil /\ ~PreparationFailed
    /\ pc \in {"destroyDangling", "ret"}

\* C29: the rollback sends the deletions in the order of the dangling
\* list, the resource registered first deleted first; the list is in the
\* order in which the resources were created.
C29_RegistrationOrder ==
    RollingBack
      => /\ Len(DeletesSent) <= Len(d.dangling)
         /\ pc = "ret" => Len(DeletesSent) = Len(d.dangling)
         /\ \A j \in 1..Len(DeletesSent) :
              /\ DeletesSent[j].c = DeleteCall(d.dangling[j])
              /\ DeletesSent[j].id = d.dangling[j].id
         /\ \A j, k \in 1..Len(d.dangling) : j < k => d.dangling[j].id < d.dangling[k].id

\* a rollback of a placement group and a key: the group, created by
\* PreCreateCheck, is deleted before the key Create uploaded
C29_Witness ==
    /\ Returns("Create") /\ RollingBack
    /\ Len(DeletesSent) = 2
    /\ DeletesSent[1].c = "PlacementGroup.Delete"
    /\ DeletesSent[2].c = "SSHKey.Delete"
    /\ DeletesSent[1].id < DeletesSent[2].id

----------------------------------------------------------------------------
(* C30: which placement group Remove deletes *)

\* the group the step has asked the provider to delete
Target == calls'[Len(calls')].id

\* the group of the server being removed, as its handle lists it
ServerGroup == d.cachedServer.pg

\* C30: Remove asks for the deletion of a placement group only when it is
\* the group of the server it removes, labelled auto-created, with at most
\* one member server listed; a group without the label or with more
\* servers is never taken from the provider by Remove.
C30_OnlyOwnEmptyAutoCreated ==
    [][ op = "Remove"
          => /\ Sends("PlacementGroup.Delete")
                  => /\ d.cachedServer.id = d.ServerID
                     /\ ServerGroup # NoPG /\ ServerGroup.id = Target
                     /\ ServerGroup.autoCreated
                     /\ ServerGroup.servers <= 1
             /\ \A g \in remote.pgs :
                  ~g.autoCreated \/ ServerGroup = NoPG \/ ServerGroup.servers > 1
                      => \E h \in remote'.pgs : h.id = g.id ]_vars

\* Remove has deleted the auto-created group of its server
C30_Witness ==
    /\ Returns("Remove") /\ result = nil
    /\ d.cachedServer.pg # NoPG /\ d.cachedServer.pg.autoCreated
    /\ \E j \in CallsOf({"PlacementGroup.Delete"}) :
         calls[j] = [c |-> "PlacementGroup.Delete", id |-> d.cachedServer.pg.id, ok |-> TRUE]
    /\ remote.pgs = {}

\* Remove has left the operator's group alone
C30_WitnessKept ==
    /\ Returns("Remove") /\ result = nil
    /\ d.cachedServer.pg # NoPG /\ ~d.cachedServer.pg.autoCreated
    /\ CallsOf({"Server.Delete"}) # {}
    /\ CallsOf({"PlacementGroup.Delete"}) = {}
    /\ \E g \in remote.pgs : g.id = d.cachedServer.pg.id

\* Remove has left an auto-created group with another member alone
C30_WitnessShared ==
    /\ Returns("Remove") /\ result = nil
    /\ d.cachedServer.pg # NoPG /\ d.cachedServer.pg.autoCreated
    /\ d.cachedServer.pg.servers = 2
    /\ CallsOf({"Server.Delete"}) # {}
    /\ CallsOf({"PlacementGroup.Delete"}) = {}

----------------------------------------------------------------------------
(* C31: waitForAction *)

Terminal == remote.action.status \in {"success", "error"}

Waiting == pc = "waitForAction"

\* the failures that end the wait
WaitFailures ==
    {Err("could not get client by ID"), Err("action not found"), Err("action failed")}

\* the error the caller of waitForAction makes of err
Surfaced(err) ==
    IF op = "Create" THEN Wrap(err, "could not wait for action")
    ELSE IF op = "Remove" THEN Wrap(err, "could not wait for deletion")
    ELSE err

\* what one round of the loop may do
WaitRound ==
    /\ pc' # "waitForAction" /\ result' = nil => remote.action.status = "success"
    /\ pc' # "waitForAction" /\ result' # nil
         => /\ result' \in {Surfaced(e) : e \in WaitFailures}
            /\ result' = Surfaced(Err("action failed")) => remote.action.status = "error"
    /\ pc' = "waitForAction" /\ calls' # calls
         => remote.action.status = "running" /\ calls'[Len(calls')].ok
    /\ remote.action.status = "error" => pc' # "waitForAction"

\* C31: the wait ends with success only at a poll that found the action
\* succeeded, ends with an error at a poll that found it failed, found no
\* action or could not ask, and goes on polling while the action runs,
\* however long; once the action is terminal the wait ends.
C31_WaitForAction ==
    /\ [][Waiting /\ remote' = remote => WaitRound]_vars
    /\ (Waiting /\ Terminal) ~> ~Waiting

\* the wait ends whatever the provider does (not so: the action may run on)
C31_AlwaysReturns == <>(~Waiting)

\* the action still runs after MaxPolls polls and the method still waits
C31_Witness ==
    /\ Waiting /\ remote.action.status = "running"
    /\ Len(calls) = MaxPolls
    /\ \A j \in 1..MaxPolls : calls[j] = [c |-> "Action.GetByID", id |-> 0, ok |-> TRUE]

\* the wait has ended with success after a poll of the running action
C31_WitnessSuccess ==
    /\ ~Waiting /\ result = nil
    /\ remote.action.status = "success"
    /\ Len(calls) = MaxPolls

----------------------------------------------------------------------------
(* C32: the public-network section of the creation request *)

\* makeCreateServerOptions has built the public-network section
PublicNetBuilt == pc = "publicNet" /\ result = nil

\* C32: on an accepted configuration the section is absent exactly when
\* nothing is disabled and no primary IP is given; when present it enables
\* IPv4 exactly when IPv4 is not disabled, IPv6 likewise, and carries a
\* primary IP only for a family it enables.
C32_PublicNet ==
    PublicNetBuilt
      => LET pn == loc.PublicNet
         IN  /\ pn.set <=> \/ d.DisablePublic4 \/ d.DisablePublic6
                           \/ d.PrimaryIPv4 # "" \/ d.PrimaryIPv6 # ""
             /\ pn.set => /\ pn.EnableIPv4 <=> ~d.DisablePublic4
                          /\ pn.EnableIPv6 <=> ~d.DisablePublic6
             /\ pn.IPv4 = d.PrimaryIPv4 /\ pn.IPv6 = d.PrimaryIPv6
             /\ pn.IPv4 # "" => pn.set /\ pn.EnableIPv4
             /\ pn.IPv6 # "" => pn.set /\ pn.EnableIPv6

\* IPv6 disabled, a primary IPv4 attached
C32_Witness ==
    /\ PublicNetBuilt
    /\ loc.PublicNet = [EnableIPv4 |-> TRUE, EnableIPv6 |-> FALSE,
                        IPv4 |-> "pip", IPv6 |-> "", set |-> TRUE]

\* nothing disabled, no primary IP: no section
C32_WitnessAbsent ==
    /\ PublicNetBuilt
    /\ ~d.DisablePublic4 /\ ~d.DisablePublic6
    /\ loc.PublicNet = NoPublicNet

\* all public networking disabled on a private network
C32_WitnessPrivateOnly ==
    /\ PublicNetBuilt /\ d.UsePrivateNetwork
    /\ loc.PublicNet = [EnableIPv4 |-> FALSE, EnableIPv6 |-> FALSE,
                        IPv4 |-> "", IPv6 |-> "", set |-> TRUE]

----------------------------------------------------------------------------
(* C33: the recorded public IPv6 address *)

\* the provider's value is its own network prefix: no host bit is set
NoHostGiven == loc.pv6.IP = loc.pv6.Network.IP

\* C33: the recorded address is the provider's value with the lowest bit
\* set when the value is its own network prefix, and the provider's value
\* unchanged when it has host bits set.
C33_HostBitsKept ==
    pc = "ret"
      => d.IPAddress = IF NoHostGiven THEN ToString(OrLowBit(loc.pv6.IP))
                       ELSE ToString(loc.pv6.IP)

\* what the branch does: the lowest bit is set whatever the host bits are
C33_LowBitAlwaysSet ==
    pc = "ret" => d.IPAddress = ToString(OrLowBit(loc.pv6.IP))

\* the value ...:2 in a /112 has a host bit set and is recorded as ...:3
C33_HostBitsChanged ==
    /\ pc = "ret"
    /\ loc.pv6 = ParseCIDR(2, 16) /\ ~NoHostGiven
    /\ d.IPAddress = "3"

----------------------------------------------------------------------------
(* C34: rollback leaves the server *)

\* the provider answered the creation request of the running Create with a
\* server
ServerMade == op = "Create" /\ loc.srv # 0

\* the failures of Create that follow the creation response
AfterCreationFailures ==
    { <<"could not wait for action", "action failed">>,
      <<"could not wait for action", "could not get client by ID">>,
      <<"could not wait for action", "action not found">>,
      <<"could not get state", "could not get server by ID", "transport">>,
      <<"could not get state", "server not found">>,
      <<"server exceeded wait-for-running-timeout">>,
      <<"could not get newly created server", "transport">> }

\* C34: no step of Create deletes a server.  When Create fails after the
\* creation response (action in error, state query error, running timeout
\* or network configuration error), its rollback has asked for the deletion
\* of every uploaded key and created placement group, no server deletion
\* was requested, and the server exists remotely when Create returns.
C34_ServerOutlivesRollback ==
    /\ op = "Create" => CallsOf({"Server.Delete"}) = {}
    /\ ServerMade => remote.server.id = loc.srv
    /\ (Returns("Create") /\ ServerMade /\ result # nil)
         => /\ result \in AfterCreationFailures
            /\ \A res \in uploaded : Invoked(res)

\* Create failed on the running timeout; its rollback deleted the uploaded
\* key and the server is still there
C34_Witness ==
    /\ Returns("Create") /\ ServerMade
    /\ result = Err("server exceeded wait-for-running-timeout")
    /\ \E res \in uploaded : res.kind = "key" /\ Invoked(res) /\ ~Exists(remote, res)
    /\ remote.server.id = loc.srv

\* Create failed on the creation action; its rollback deleted an uploaded
\* key and the created placement group and the server is still there
C34_WitnessGroup ==
    /\ Returns("Create") /\ ServerMade
    /\ result = <<"could not wait for action", "action failed">>
    /\ \E res \in uploaded : res.kind = "key" /\ Invoked(res) /\ ~Exists(remote, res)
    /\ \E res \in uploaded : res.kind = "pg" /\ Invoked(res) /\ ~Exists(remote, res)
    /\ remote.server.id = loc.srv

\* Create failed on the network configuration and left the server
C34_WitnessNetwork ==
    /\ Returns("Create") /\ ServerMade
    /\ result = <<"could not get newly created server", "transport">>
    /\ uploaded # {}
    /\ remote.server.id = loc.srv

----------------------------------------------------------------------------
(* C35: Remove after a rolled-back Create *)

\* the keys the rollback of the running Create has deleted
RolledBackKeys == {calls[j].id : j \in {k \in CallsOf({"SSHKey.Delete"}) : calls[k].ok}}

\* the keys Remove takes for its own
OwnedKeys(dd) ==
    Range(dd.AdditionalKeyIDs)
        \cup (IF ~dd.IsExistingKey /\ dd.KeyID # 0 THEN {dd.KeyID} ELSE {})

\* Remove ended in a failure of its key steps although a key it took for
\* its own, uploaded by this driver, is gone
FailedOnMissingKey ==
    /\ op = "Remove" /\ pc \in {"ret", "panicked"} /\ result # nil
    /\ \/ result[1] = "could not get ssh key" /\ result[2] = "key not found"
       \/ result[1] \in {"could not delete ssh key", "panic: nil pointer dereference"}
    /\ \E id \in OwnedKeys(d) \cap UploadedKeyIDs : RemoteKeyByID(remote, id) = NoKey

\* C35: after a Create that failed and rolled back the keys it uploaded,
\* the driver no longer takes those keys for its own, and a following
\* Remove does not fail on them.
C35_RemoveAfterRollback ==
    /\ (Returns("Create") /\ result # nil) => OwnedKeys(d) \cap RolledBackKeys = {}
    /\ host.phase = "failed" => ~FailedOnMissingKey

\* Create has returned an error with the key its rollback deleted still
\* recorded as the driver's own primary key
C35_StillOwned ==
    /\ Returns("Create") /\ result # nil
    /\ d.KeyID \in RolledBackKeys /\ ~d.IsExistingKey

\* the Remove after that Create returned an error about that key
C35_RemoveFails ==
    /\ host.phase = "failed" /\ Returns("Remove")
    /\ d.KeyID \in UploadedKeyIDs /\ ~d.IsExistingKey
    /\ RemoteKeyByID(remote, d.KeyID) = NoKey
    /\ result = <<"could not get ssh key", "key not found", ToString(d.KeyID)>>

\* the Remove after a Create whose rollback deleted an additional key
\* passes nil to SSHKey.Delete
C35_RemovePanics ==
    /\ host.phase = "failed" /\ op = "Remove" /\ pc = "panicked"
    /\ \E id \in Range(d.AdditionalKeyIDs) \cap UploadedKeyIDs :
         RemoteKeyByID(remote, id) = NoKey

----------------------------------------------------------------------------
(* C36: Remove when the primary key is gone *)

\* the primary-key step of Remove looked up the key this driver uploaded
\* and the provider answered that there is none
PrimaryKeyAbsent ==
    /\ op = "Remove"
    /\ ~d.IsExistingKey /\ d.KeyID \in UploadedKeyIDs
    /\ \E j \in CallsOf({"SSHKey.GetByID"}) : calls[j].ok
    /\ d.cachedKey = NoKey

\* C36: when the lookup of the newly created primary key answers absent
\* without a transport error, Remove takes the key for removed and returns
\* nil.
C36_AbsentKeyIsSuccess ==
    (Returns("Remove") /\ PrimaryKeyAbsent) => result = nil

\* the uploaded key is gone and was not looked up before; Remove returned
\* the error of the lookup
C36_AbsentKeyFails ==
    /\ Returns("Remove") /\ PrimaryKeyAbsent
    /\ RemoteKeyByID(remote, d.KeyID) = NoKey
    /\ result = <<"could not get ssh key", "key not found", ToString(d.KeyID)>>

\* what the code does: an absent primary key always ends Remove with the
\* error of getKey
C36_AbsentKeyIsError ==
    (Returns("Remove") /\ PrimaryKeyAbsent)
        => result = <<"could not get ssh key", "key not found", ToString(d.KeyID)>>

----------------------------------------------------------------------------
(* C37 and C38: two driver instances and their placement groups *)

GroupIDs(rr) == {g.id : g \in rr.pgs}

\* the groups instance j has resolved and is about to use or uses for its
\* server
HeldBy(j) ==
    ({d[j].cachedPGrp}
       \cup (IF op[j] = "Create" THEN {loc[j].pgrp} ELSE {})
       \cup {srv.pg : srv \in {x \in remote.servers : x.by = j}}) \ {0}

\* the rollback of instance i deleted the group id in this step
RolledBackGroup(i, id) ==
    /\ pc[i] = "destroyDangling"
    /\ id \in GroupIDs(remote) \ GroupIDs(remote')

\* C37: the rollback of a failed Create of one instance never deletes a
\* placement group another instance has resolved and is about to use or is
\* using for its server.
C37_RollbackSparesSharedGroup ==
    [][\A i \in Instances, j \in Instances :
          i # j => \A id \in HeldBy(j) : ~RolledBackGroup(i, id)]_vars

\* an instance is about to send Server.Create with a group that the
\* rollback of the other instance has deleted
C37_GroupDeletedUnderUser ==
    \E i \in Instances, j \in Instances :
       /\ i # j
       /\ pc[j] = "ServerCreate" /\ loc[j].pgrp # 0
       /\ loc[j].pgrp \notin GroupIDs(remote)
       /\ op[i] = "Create" /\ pc[i] = "ret" /\ result[i] # nil
       /\ \E k \in 1..Len(calls[i]) :
            /\ calls[i][k] = [c |-> "PlacementGroup.Delete", id |-> loc[j].pgrp, ok |-> TRUE]

C38_TwoAutoSpreadGroups ==
    /\ \A i \in Instances :
         /\ d[i].placementGroup = autoSpreadPgName
         /\ d[i].cachedPGrp \in GroupIDs(remote)
    /\ d[1].cachedPGrp # d[2].cachedPGrp
    /\ \A g \in remote.pgs : g.autoSpread /\ g.autoCreated

----------------------------------------------------------------------------
(* C39: Create terminates *)

\* every registered deletion has been requested by the running method
RollbackHasRun == \A i \in 1..Len(d.dangling) : Invoked(d.dangling[i])

\* under a provider that answers and makes progress, Create returns
C39_CreateReturns == (op = "Create") ~> Returns("Create")

\* C39: when every remote call returns, the creation action reaches a
\* terminal status, the server reports running or the running timeout is
\* set, and the private network attaches, Create returns nil or an error,
\* and when it returns an error its rollback has run.
C39_CreateTerminatesRolledBack ==
    /\ C39_CreateReturns
    /\ []((Returns("Create") /\ result # nil) => RollbackHasRun)

\* what the code does: the rollback has run at every error return that
\* follows the preparation of the local key
C39_RolledBackAfterPreparation ==
    (Returns("Create") /\ result # nil /\ ~PreparationFailed) => RollbackHasRun

\* Create returned the error of the local key preparation: the deletion of
\* the group PreCreateCheck created is registered and was not requested
C39_RollbackSkipped ==
    /\ Returns("Create") /\ PreparationFailed
    /\ d.dangling # <<>> /\ calls = <<>>
    /\ \E res \in uploaded : res.kind = "pg" /\ Exists(remote, res)

\* Create returned nil after waiting for a private network
C39_Returned ==
    /\ Returns("Create") /\ result = nil
    /\ d.UsePrivateNetwork /\ d.IPAddress = "private"

----------------------------------------------------------------------------
(* C40: KeyID and IsExistingKey *)

\* the running Create uploaded the key recorded as the primary key
UploadedPrimaryKey ==
    /\ [kind |-> "key", id |-> d.KeyID] \in uploaded
    /\ \E j \in CallsOf({"SSHKey.Create"}) : calls[j].ok /\ calls[j].id = d.KeyID

\* C40: in every state after configuration binding IsExistingKey implies a
\* non-zero KeyID; when Create returns nil, KeyID is non-zero and
\* IsExistingKey is false exactly when that Create uploaded the primary
\* key.
C40_KeyOwnership ==
    /\ d.IsExistingKey => d.KeyID # 0
    /\ (Returns("Create") /\ result = nil)
         => /\ d.KeyID # 0
            /\ ~d.IsExistingKey <=> UploadedPrimaryKey

\* Create returned nil for a machine whose primary key was at the provider
\* before, having uploaded an additional key only
C40_Witness ==
    /\ Returns("Create") /\ result = nil
    /\ d.IsExistingKey /\ d.originalKey # "" /\ d.KeyID = ForeignKeyID(PrimaryPub)
    /\ CallsOf({"SSHKey.Create"}) # {}
    /\ ~UploadedPrimaryKey

\* Create returned nil having uploaded the primary key
C40_WitnessUploaded ==
    /\ Returns("Create") /\ result = nil
    /\ ~d.IsExistingKey /\ UploadedPrimaryKey

====
